---- MODULE Spec2Model ----
(***************************************************************************)
(* cpdep: component-level include-dependency analysis of a C/C++ tree.    *)
(*                                                                         *)
(* Paths and include strings are TLA+ strings, handled a character at a    *)
(* time with Len / SubSeq, as the Rust code handles its String values.     *)
(* File and component references are 1-based here (Rust index + 1).        *)
(***************************************************************************)
EXTENDS Integers, Sequences, FiniteSets, TLC

VARIABLES
    root,             \* Opt.root as given on the command line
    pending,          \* directory entries the walker has not handed out yet
    threads,          \* per walker thread: its FileCollectorThread
    walk_state,       \* "walking" | "joined" | "returned" : position in read_files
    files,            \* FileCollector.files / Graph.files
    components,       \* FileCollector.components / Graph.components
    compile_commands, \* Opt.compile_commands after load_compile_commands, or NoDb
    disk,             \* the file system: path |-> content (raw include captures)
    options,          \* Opt.warn_missing and Opt.warn_malformed
    printed,          \* the warning lines println! wrote while scanning and loading
    pc,               \* "scan" | "loaded" | "done" | "panic" : position in main
    file_components,  \* Graph.file_components
    component_files,  \* Graph.component_files
    file_links,       \* Graph.file_links
    file_is_public,   \* Graph.file_is_public
    out,              \* what the last query printed
    gui               \* the Gui of show_ui, or NoGui

scan_vars  == <<pending, threads, walk_state>>
input_vars == <<root, files, components, compile_commands, disk, options>>
graph_vars == <<file_components, component_files, file_links, file_is_public>>
vars == <<root, pending, threads, walk_state, files, components, compile_commands,
          disk, options, printed, pc, file_components, component_files, file_links,
          file_is_public, out, gui>>

NoDb == [given |-> FALSE]
NoOut == [cmd |-> "none"]
NoGui == [shown |-> FALSE]

\* structopt: both flags are off unless given
NoWarn == [warn_missing |-> FALSE, warn_malformed |-> FALSE]
AllOptions == [warn_missing : BOOLEAN, warn_malformed : BOOLEAN]

(***************************************************************************)
(* Bounds of the model.                                                    *)
(***************************************************************************)
MaxFiles == 3
MaxIncludes == 2
MaxEntries == 3
NumWorkers == 2
MaxQueryIncludes == 3
MaxShortestIncludes == 4

(***************************************************************************)
(* str helpers (std::str)                                                  *)
(***************************************************************************)
Char(s, i) == SubSeq(s, i, i)

ends_with(s, suf) ==
    /\ Len(s) >= Len(suf)
    /\ SubSeq(s, Len(s) - Len(suf) + 1, Len(s)) = suf

starts_with(s, pre) ==
    /\ Len(s) >= Len(pre)
    /\ SubSeq(s, 1, Len(pre)) = pre

\* positions (1-based, ascending) of character c in s
match_indices(s, c) ==
    LET F[i \in 0..Len(s)] ==
            IF i = 0 THEN <<>>
            ELSE IF Char(s, i) = c THEN Append(F[i - 1], i) ELSE F[i - 1]
    IN F[Len(s)]

Reverse(q) == [i \in 1..Len(q) |-> q[Len(q) + 1 - i]]

rmatch_indices(s, c) == Reverse(match_indices(s, c))

\* s.replace(from, to) for one-character from and to
replace(s, from, to) ==
    LET F[i \in 0..Len(s)] ==
            IF i = 0 THEN ""
            ELSE F[i - 1] \o (IF Char(s, i) = from THEN to ELSE Char(s, i))
    IN  F[Len(s)]

\* all leading repetitions of pat removed
RECURSIVE trim_start_matches(_, _)
trim_start_matches(s, pat) ==
    IF pat # "" /\ starts_with(s, pat)
    THEN trim_start_matches(SubSeq(s, Len(pat) + 1, Len(s)), pat)
    ELSE s

\* all trailing repetitions of pat removed
RECURSIVE trim_end_matches(_, _)
trim_end_matches(s, pat) ==
    IF pat # "" /\ ends_with(s, pat)
    THEN trim_end_matches(SubSeq(s, 1, Len(s) - Len(pat)), pat)
    ELSE s

\* s.rfind(sub): the 1-based position of the last occurrence, 0 for None
rfind(s, sub) ==
    LET hits == {i \in 1..Len(s) :
                    /\ i + Len(sub) - 1 <= Len(s)
                    /\ SubSeq(s, i, i + Len(sub) - 1) = sub}
    IN  IF hits = {} THEN 0 ELSE CHOOSE i \in hits : \A j \in hits : j <= i

\* s contains sub as a substring
contains(s, sub) ==
    \E i \in 1..(Len(s) + 1) :
        /\ i + Len(sub) - 1 <= Len(s)
        /\ SubSeq(s, i, i + Len(sub) - 1) = sub

\* byte order of the characters that occur in the model's paths
Ascii == "./0123456789ABCDEFGHIJKLMNOPQRSTUVWXYZ_abcdefghijklmnopqrstuvwxyz"

OrdOf ==
    [c \in {Char(Ascii, i) : i \in 1..Len(Ascii)} |->
        CHOOSE i \in 1..Len(Ascii) : Char(Ascii, i) = c]

Ord(c) == OrdOf[c]

\* a < b in the byte-wise lexicographic order of str::cmp
RECURSIVE str_less(_, _)
str_less(a, b) ==
    IF Len(b) = 0 THEN FALSE
    ELSE IF Len(a) = 0 THEN TRUE
    ELSE IF Char(a, 1) = Char(b, 1)
         THEN str_less(SubSeq(a, 2, Len(a)), SubSeq(b, 2, Len(b)))
         ELSE Ord(Char(a, 1)) < Ord(Char(b, 1))

Range(q) == {q[i] : i \in 1..Len(q)}

Count(q, x) == Cardinality({i \in 1..Len(q) : q[i] = x})

None == [some |-> FALSE]
Some(v) == [some |-> TRUE, val |-> v]

\* the n-th piece (n = 0, 1, ...) of s.rsplit(c), if there is one
rsplit_nth(s, c, n) ==
    LET idxs == rmatch_indices(s, c)
    IN  IF n > Len(idxs) THEN None
        ELSE LET hi == IF n = 0 THEN Len(s) ELSE idxs[n] - 1
                 lo == IF n + 1 > Len(idxs) THEN 1 ELSE idxs[n + 1] + 1
             IN  Some(SubSeq(s, lo, hi))

(***************************************************************************)
(* file_collector.rs: the scanner                                          *)
(***************************************************************************)
\* read_files: options.root.replace('\\', "/").trim_end_matches('/')
root_path == trim_end_matches(replace(root, "\\", "/"), "/")

rel_path(path) == trim_start_matches(trim_start_matches(path, root_path), "/")

source_suffixes ==
    <<".cpp", ".hpp", ".c", ".h", ".inl", ".hh", ".cc", ".ipp", ".imp", ".impl", ".H">>

\* faulty variant: "../" is looked for before the backslashes are replaced
normalize_include_raw_rfind(cap) ==
    LET idx == rfind(cap, "../")
    IN  replace(IF idx # 0 THEN SubSeq(cap, idx + 3, Len(cap)) ELSE cap, "\\", "/")

\* one captured include string, as extract_includes stores it
normalize_include(cap) ==
    LET include == replace(cap, "\\", "/")
        idx == rfind(include, "../")
    IN  IF idx # 0 THEN SubSeq(include, idx + 3, Len(include)) ELSE include

\* the content of a file is its sequence of captures, or unreadable
\* captures: what INCLUDE_RE captures in the bytes, as from_utf8_lossy gives it
\* (the model's captures are ASCII); captures16: what INCLUDE_RE_16 captures,
\* as bytes
Content(caps, caps16) == [ok |-> TRUE, captures |-> caps, captures16 |-> caps16]
Readable(caps) == Content(caps, <<>>)
Unreadable == [ok |-> FALSE]

\* slice::chunks_exact(2): the pairs of bytes, a last odd byte is left out
chunks_exact_2(bytes) ==
    [k \in 1..(Len(bytes) \div 2) |-> <<bytes[2 * k - 1], bytes[2 * k]>>]

\* u16::from_ne_bytes on a little-endian target
from_ne_bytes(a) == a[1] + 256 * a[2]

\* the code units that are characters of the model's strings
Utf16Ascii ==
    [u \in {46, 47, 92, 99, 104, 109, 112, 114, 117} |->
        CASE u = 46 -> "." [] u = 47 -> "/" [] u = 92 -> "\\" [] u = 99 -> "c"
          [] u = 104 -> "h" [] u = 109 -> "m" [] u = 112 -> "p" [] u = 114 -> "r"
          [] u = 117 -> "u"]

\* String::from_utf16_lossy: any other code unit decodes to a character that is
\* none of the model's, written "?" here
from_utf16_lossy(units) ==
    LET F[k \in 0..Len(units)] ==
            IF k = 0 THEN ""
            ELSE F[k - 1] \o (IF units[k] \in DOMAIN Utf16Ascii
                              THEN Utf16Ascii[units[k]] ELSE "?")
    IN  F[Len(units)]

\* the captures extract_includes works on: those of INCLUDE_RE, and those of
\* INCLUDE_RE_16 only when INCLUDE_RE captured nothing
captures_iter(path) ==
    LET caps == disk[path].captures
        caps16 == disk[path].captures16
    IN  IF caps # <<>> THEN caps
        ELSE [k \in 1..Len(caps16) |->
                 LET pairs == chunks_exact_2(caps16[k])
                 IN  from_utf16_lossy([n \in 1..Len(pairs) |-> from_ne_bytes(pairs[n])])]

\* faulty variant: the include is cut after the last "../" only when the warning is on
extract_includes_cut_on_warn(path, warn_malformed) ==
    IF disk[path].ok
    THEN LET caps == captures_iter(path)
         IN  [ok |-> TRUE,
              val |-> [k \in 1..Len(caps) |->
                          IF warn_malformed THEN normalize_include(caps[k])
                          ELSE replace(caps[k], "\\", "/")],
              stdout |-> {<<"malformed include in ", path, replace(caps[k], "\\", "/")>> :
                             k \in {j \in 1..Len(caps) :
                                        /\ warn_malformed
                                        /\ contains(replace(caps[j], "\\", "/"), "../")}}]
    ELSE [ok |-> FALSE, stdout |-> {}]

\* result: the stored includes and the lines printed, or the io error
extract_includes(path, warn_malformed) ==
    IF disk[path].ok
    THEN LET caps == captures_iter(path)
         IN  [ok |-> TRUE,
              val |-> [k \in 1..Len(caps) |-> normalize_include(caps[k])],
              stdout |-> {<<"malformed include in ", path, replace(caps[k], "\\", "/")>> :
                             k \in {j \in 1..Len(caps) :
                                        /\ warn_malformed
                                        /\ rfind(replace(caps[j], "\\", "/"), "../") # 0}}]
    ELSE [ok |-> FALSE, stdout |-> {}]

\* Path::ends_with("CMakeLists.txt"): the last path component is the marker name
is_marker(entry) == rsplit_nth(entry, "/", 0).val = "CMakeLists.txt"

is_source(path_str) ==
    \E k \in 1..Len(source_suffixes) : ends_with(path_str, source_suffixes[k])

\* FileCollectorBuilder::build copies warn_malformed into the thread
FileCollectorThread(warn_malformed) ==
    [files |-> <<>>, components |-> <<>>, alive |-> TRUE, warn_malformed |-> warn_malformed]
NewThread == FileCollectorThread(options.warn_malformed)
DeadThread == [NewThread EXCEPT !.alive = FALSE]

\* FileCollectorThread::visit
visit(th, entry) ==
    LET path_str == replace(entry, "\\", "/")
    IN  IF is_marker(entry)
        THEN [th EXCEPT !.components =
                 Append(@, [path |-> rel_path(trim_end_matches(path_str, "/CMakeLists.txt"))])]
        ELSE IF is_source(path_str)
             THEN LET r == extract_includes(entry, th.warn_malformed)
                  IN  IF r.ok
                      THEN [th EXCEPT !.files =
                               Append(@, [path |-> rel_path(path_str),
                                          include_paths |-> r.val])]
                      ELSE th
             ELSE th

\* the lines FileCollectorThread::visit prints for one entry
visit_stdout(th, entry) ==
    LET path_str == replace(entry, "\\", "/")
    IN  IF ~is_marker(entry) /\ is_source(path_str)
        THEN LET r == extract_includes(entry, th.warn_malformed)
             IN  IF r.ok THEN r.stdout ELSE {<<"Error while parsing ", path_str>>}
        ELSE {}

\* the root component is appended when no component has the empty path
with_root_component(cs) ==
    IF \E i \in 1..Len(cs) : cs[i].path = "" THEN cs ELSE Append(cs, [path |-> ""])

\* a walker thread takes one pending entry and visits it
Visit ==
    /\ walk_state = "walking"
    /\ \E w \in 1..NumWorkers, e \in pending :
         /\ threads[w].alive
         /\ threads' = [threads EXCEPT ![w] = visit(@, e)]
         /\ printed' = printed \cup visit_stdout(threads[w], e)
         /\ pending' = pending \ {e}
    /\ UNCHANGED <<input_vars, walk_state, pc, graph_vars, out, gui>>

\* Drop for FileCollectorThread: both appends under the collector's mutex
Drop ==
    /\ walk_state = "walking"
    /\ pending = {}
    /\ \E w \in 1..NumWorkers :
         /\ threads[w].alive
         /\ files' = files \o threads[w].files
         /\ components' = components \o threads[w].components
         /\ threads' = [threads EXCEPT ![w] = DeadThread]
    /\ UNCHANGED <<root, compile_commands, disk, options, printed, pending, walk_state, pc,
                   graph_vars, out, gui>>

\* faulty variant: the collector is taken while a thread may still hold entries
ReadFilesReturn_early ==
    /\ walk_state = "walking"
    /\ pending = {}
    /\ components' = with_root_component(components)
    /\ walk_state' = "returned"
    /\ UNCHANGED <<root, files, compile_commands, disk, options, printed, pending, threads, pc,
                   graph_vars, out, gui>>

\* read_files after the walk: unwrap the collector, append the root component
ReadFilesReturn ==
    /\ walk_state = "walking"
    /\ pending = {}
    /\ \A w \in 1..NumWorkers : ~threads[w].alive
    /\ components' = with_root_component(components)
    /\ walk_state' = "returned"
    /\ UNCHANGED <<root, files, compile_commands, disk, options, printed, pending, threads, pc,
                   graph_vars, out, gui>>

(***************************************************************************)
(* graph.rs: the assigner                                                  *)
(***************************************************************************)
\* components.iter().enumerate().find(|(_, c)| c.path == p): 0 stands for None
find_component(cs, p) ==
    IF \E i \in 1..Len(cs) : cs[i].path = p
    THEN CHOOSE i \in 1..Len(cs) :
            /\ cs[i].path = p
            /\ \A j \in 1..(i - 1) : cs[j].path # p
    ELSE 0

default_component(cs) == find_component(cs, "")

\* faulty variant: the prefixes are tried from the shortest to the longest
file_to_component_shortest(cs, path) ==
    LET idxs == match_indices(path, "/")
        F[k \in 1..(Len(idxs) + 1)] ==
            IF k > Len(idxs) THEN default_component(cs)
            ELSE LET hit == find_component(cs, SubSeq(path, 1, idxs[k] - 1))
                 IN  IF hit # 0 THEN hit ELSE F[k + 1]
    IN  F[1]

\* the closure of files_to_components: the component of one file path
file_to_component(cs, path) ==
    LET idxs == rmatch_indices(path, "/")
        F[k \in 1..(Len(idxs) + 1)] ==
            IF k > Len(idxs) THEN default_component(cs)
            ELSE LET hit == find_component(cs, SubSeq(path, 1, idxs[k] - 1))
                 IN  IF hit # 0 THEN hit ELSE F[k + 1]
    IN  F[1]

files_to_components(fs, cs) ==
    [i \in 1..Len(fs) |-> file_to_component(cs, fs[i].path)]

\* faulty variant: the loop stops one file short
build_component_files_short(fc, n) ==
    [c \in 1..n |->
        LET F[i \in 0..Len(fc)] ==
                IF i = 0 THEN <<>>
                ELSE IF fc[i] = c /\ i < Len(fc) THEN Append(F[i - 1], i) ELSE F[i - 1]
        IN  F[Len(fc)]]

\* load: component_files[c].push(i) for every file i in order
build_component_files(fc, n) ==
    [c \in 1..n |->
        LET F[i \in 0..Len(fc)] ==
                IF i = 0 THEN <<>>
                ELSE IF fc[i] = c THEN Append(F[i - 1], i) ELSE F[i - 1]
        IN  F[Len(fc)]]

(***************************************************************************)
(* graph.rs: the heuristic resolver                                        *)
(***************************************************************************)
EmptyMap == [k \in {} |-> <<>>]

\* map.entry(key).or_default().push(i)
push_entry(m, key, i) ==
    IF key \in DOMAIN m THEN [m EXCEPT ![key] = Append(@, i)]
    ELSE m @@ (key :> <<i>>)

\* one iteration of the index loop: the path and each of its '/'-suffixes
index_file(m, path, i) ==
    LET idxs == match_indices(path, "/")
        F[k \in 0..Len(idxs)] ==
            IF k = 0 THEN push_entry(m, path, i)
            ELSE push_entry(F[k - 1], SubSeq(path, idxs[k] + 1, Len(path)), i)
    IN  F[Len(idxs)]

path_to_files(fs) ==
    LET F[i \in 0..Len(fs)] ==
            IF i = 0 THEN EmptyMap ELSE index_file(F[i - 1], fs[i].path, i)
    IN  F[Len(fs)]

DefaultLinks == [incoming_links |-> <<>>, outgoing_links |-> <<>>]

\* faulty variant: the incoming link is pushed only if it is not there yet
add_link_once(links, from, to) ==
    LET l1 == [links EXCEPT ![from].outgoing_links = Append(@, to)]
    IN  IF from \in Range(l1[to].incoming_links) THEN l1
        ELSE [l1 EXCEPT ![to].incoming_links = Append(@, from)]

\* file_links[from].outgoing_links.push(to); file_links[to].incoming_links.push(from)
add_link(links, from, to) ==
    LET l1 == [links EXCEPT ![from].outgoing_links = Append(@, to)]
    IN  [l1 EXCEPT ![to].incoming_links = Append(@, from)]

\* faulty variant: a candidate of another component is skipped always
skip_candidate_always(present, fc, dep, i_file) ==
    fc[dep] # fc[i_file]

\* the candidate of another component is skipped when a local candidate exists
skip_candidate(present, fc, dep, i_file) ==
    present /\ fc[dep] # fc[i_file]

\* the loop over deps for one include of file i_file
link_deps(links, fc, i_file, deps) ==
    LET is_present_in_this_component ==
            \E k \in 1..Len(deps) : fc[deps[k]] = fc[i_file]
        F[k \in 0..Len(deps)] ==
            IF k = 0 THEN links
            ELSE IF skip_candidate(is_present_in_this_component, fc, deps[k], i_file)
                 THEN F[k - 1]
                 ELSE add_link(F[k - 1], i_file, deps[k])
    IN  F[Len(deps)]

\* faulty variant: an include string that occurred earlier in the list is skipped
link_includes_dedup(st, fc, m, i_file, file, opts) ==
    LET includes == file.include_paths
        F[k \in 0..Len(includes)] ==
            IF k = 0 THEN st
            ELSE IF \E j \in 1..(k - 1) : includes[j] = includes[k]
                 THEN F[k - 1]
                 ELSE IF includes[k] \in DOMAIN m
                      THEN [F[k - 1] EXCEPT
                               !.links = link_deps(@, fc, i_file, m[includes[k]])]
                      ELSE F[k - 1]
    IN  F[Len(includes)]

\* the loop over the includes of file i_file; st is [links, stdout]
link_includes(st, fc, m, i_file, file, opts) ==
    LET includes == file.include_paths
        F[k \in 0..Len(includes)] ==
            IF k = 0 THEN st
            ELSE IF includes[k] \in DOMAIN m
                 THEN [F[k - 1] EXCEPT !.links = link_deps(@, fc, i_file, m[includes[k]])]
                 ELSE IF opts.warn_missing
                      THEN [F[k - 1] EXCEPT !.stdout =
                               @ \cup {<<"include not found in ", file.path, includes[k]>>}]
                      ELSE F[k - 1]
    IN  F[Len(includes)]

\* result: [links, stdout]
generate_file_links(fs, fc, opts) ==
    LET m == path_to_files(fs)
        F[i \in 0..Len(fs)] ==
            IF i = 0 THEN [links |-> [f \in 1..Len(fs) |-> DefaultLinks], stdout |-> {}]
            ELSE link_includes(F[i - 1], fc, m, i, fs[i], opts)
    IN  F[Len(fs)]

(***************************************************************************)
(* graph.rs: the compile-database resolver                                 *)
(***************************************************************************)
Cwd == "/w"

\* PathBuf::join
join(dir, p) ==
    IF starts_with(p, "/") THEN p
    ELSE IF dir = "" THEN p
    ELSE IF ends_with(dir, "/") THEN dir \o p
    ELSE dir \o "/" \o p

\* Path::canonicalize of a path without links or dots: absolute, no trailing '/'
canonicalize(p) ==
    LET abs == join(Cwd, p)
    IN  IF abs = "/" THEN abs ELSE trim_end_matches(abs, "/")

\* Path::parent
parent(p) ==
    IF p = "" \/ p = "/" THEN None
    ELSE LET i == rfind(p, "/")
         IN  IF i = 0 THEN Some("")
             ELSE IF i = 1 THEN Some("/")
             ELSE Some(SubSeq(p, 1, i - 1))

UpperCase == "ABCDEFGHIJKLMNOPQRSTUVWXYZ"
LowerCase == "abcdefghijklmnopqrstuvwxyz"

LowerOf ==
    [c \in {Char(UpperCase, i) : i \in 1..Len(UpperCase)} |->
        Char(LowerCase, CHOOSE i \in 1..Len(UpperCase) : Char(UpperCase, i) = c)]

to_lowercase(s) ==
    LET F[i \in 0..Len(s)] ==
            IF i = 0 THEN ""
            ELSE F[i - 1] \o (IF Char(s, i) \in DOMAIN LowerOf
                              THEN LowerOf[Char(s, i)] ELSE Char(s, i))
    IN  F[Len(s)]

\* cfg!(windows) is false
to_internal_path(p) == p

exists(p) == p \in DOMAIN disk

\* HashMap::from_iter: a later file with the same key replaces an earlier one
path_to_id(fs) ==
    LET key(i) == to_lowercase(join(canonicalize(root), to_internal_path(fs[i].path)))
    IN  [k \in {key(i) : i \in 1..Len(fs)} |->
            CHOOSE i \in 1..Len(fs) :
                /\ key(i) = k
                /\ \A j \in 1..Len(fs) : key(j) = k => j <= i]

\* faulty variant: the recursion is entered at the first link into the file
needs_fill_first_link(links, included_file_id) ==
    Len(links[included_file_id].incoming_links) = 1

\* the recursion guard of fill_file_links
needs_fill(links, included_file_id) == links[included_file_id].outgoing_links = <<>>

\* a call of fill_file_links for i_file begins: the call stack grows by i_file
\* (entered: the files of the calls in progress, innermost last; depth: the
\* deepest stack so far; reentered: a call began for a file already on the
\* stack; calls: the files of the calls so far, in order)
call_begin(st, i_file) ==
    [st EXCEPT !.entered = Append(@, i_file),
               !.depth = IF Len(st.entered) + 1 > @ THEN Len(st.entered) + 1 ELSE @,
               !.reentered = @ \/ i_file \in Range(st.entered),
               !.calls = Append(@, i_file)]

\* the call returns to a caller whose stack was `entered`
call_end(st, entered) == [st EXCEPT !.entered = entered]

RECURSIVE fill_file_links(_, _, _, _, _, _, _)
RECURSIVE try_include_paths(_, _, _, _, _, _, _, _, _)

\* the loop over included_files of file i_file, from the k-th on
fill_file_links(fs, st, ids, include_paths, i_file, k, opts) ==
    IF st.panic \/ k > Len(fs[i_file].include_paths) THEN st
    ELSE LET included_file == fs[i_file].include_paths[k]
             parent_dir == parent(included_file)
         IN  IF ~parent_dir.some THEN [st EXCEPT !.panic = TRUE]
             ELSE fill_file_links(
                      fs,
                      try_include_paths(fs, st, ids, include_paths, i_file, included_file,
                                        <<parent_dir.val>> \o include_paths, 1, opts),
                      ids, include_paths, i_file, k + 1, opts)

\* the loop over the candidate directories, from the j-th on
try_include_paths(fs, st, ids, include_paths, i_file, included_file, dirs, j, opts) ==
    IF j > Len(dirs)
    THEN IF opts.warn_missing
         THEN [st EXCEPT !.stdout =
                  @ \cup {<<"include not found in ", fs[i_file].path, included_file>>}]
         ELSE st
    ELSE LET joined == join(dirs[j], to_internal_path(included_file))
         IN  IF ~exists(joined)
             THEN try_include_paths(fs, st, ids, include_paths, i_file, included_file, dirs,
                                    j + 1, opts)
             ELSE IF to_lowercase(joined) \notin DOMAIN ids
             THEN try_include_paths(
                      fs,
                      [st EXCEPT !.stdout =
                          @ \cup {<<"in file ", fs[i_file].path,
                                    ": include file outside build: ", to_lowercase(joined)>>}],
                      ids, include_paths, i_file, included_file, dirs, j + 1, opts)
             ELSE LET included_file_id == ids[to_lowercase(joined)]
                      st1 == [st EXCEPT !.links = add_link(@, i_file, included_file_id)]
                  IN  IF needs_fill(st1.links, included_file_id)
                      THEN call_end(fill_file_links(fs, call_begin(st1, included_file_id),
                                                    ids, include_paths, included_file_id, 1,
                                                    opts),
                                    st1.entered)
                      ELSE st1

\* result: [links, panic, stdout] and the record of the calls of fill_file_links
generate_file_links_from_commands(fs, db, opts) ==
    LET ids == path_to_id(fs)
        F[i \in 0..Len(fs)] ==
            IF i = 0 THEN [links |-> [f \in 1..Len(fs) |-> DefaultLinks], panic |-> FALSE,
                           stdout |-> {},
                           entered |-> <<>>, depth |-> 0, reentered |-> FALSE,
                           calls |-> <<>>]
            ELSE LET file_path_str == join(canonicalize(root), to_internal_path(fs[i].path))
                 IN  IF file_path_str \in DOMAIN db
                     THEN call_end(fill_file_links(fs, call_begin(F[i - 1], i), ids,
                                                   db[file_path_str], i, 1, opts),
                                   <<>>)
                     ELSE F[i - 1]
    IN  F[Len(fs)]

(***************************************************************************)
(* graph.rs: the publicness analyzer                                       *)
(***************************************************************************)
\* faulty variant: the including file is marked instead of the included one
mark_crossing_source(st, links, fc, f) ==
    LET outs == links[f].outgoing_links
        F[k \in 0..Len(outs)] ==
            IF k = 0 THEN st
            ELSE LET fi == outs[k]
                     s  == F[k - 1]
                 IN  IF ~s.is_public[f] /\ fc[fi] # fc[f]
                     THEN [is_public |-> [s.is_public EXCEPT ![f] = TRUE],
                           to_visit  |-> Append(s.to_visit, f)]
                     ELSE s
    IN  F[Len(outs)]

\* body of the first loop, for the outgoing links of file f
mark_crossing(st, links, fc, f) ==
    LET outs == links[f].outgoing_links
        F[k \in 0..Len(outs)] ==
            IF k = 0 THEN st
            ELSE LET fi == outs[k]
                     s  == F[k - 1]
                 IN  IF ~s.is_public[fi] /\ fc[fi] # fc[f]
                     THEN [is_public |-> [s.is_public EXCEPT ![fi] = TRUE],
                           to_visit  |-> Append(s.to_visit, fi)]
                     ELSE s
    IN  F[Len(outs)]

\* faulty variant: publicness propagates along every edge of a public file
propagate_closure(st, links, fc, f) ==
    LET outs == links[f].outgoing_links
        F[k \in 0..Len(outs)] ==
            IF k = 0 THEN st
            ELSE LET fi == outs[k]
                     s  == F[k - 1]
                 IN  IF ~s.is_public[fi]
                     THEN [is_public |-> [s.is_public EXCEPT ![fi] = TRUE],
                           to_visit  |-> Append(s.to_visit, fi)]
                     ELSE s
    IN  F[Len(outs)]

\* faulty variant: publicness propagates within the component (== for !=)
propagate_same_component(st, links, fc, f) ==
    LET outs == links[f].outgoing_links
        F[k \in 0..Len(outs)] ==
            IF k = 0 THEN st
            ELSE LET fi == outs[k]
                     s  == F[k - 1]
                 IN  IF ~s.is_public[fi] /\ fc[fi] = fc[f]
                     THEN [is_public |-> [s.is_public EXCEPT ![fi] = TRUE],
                           to_visit  |-> Append(s.to_visit, fi)]
                     ELSE s
    IN  F[Len(outs)]

\* body of the worklist loop, for the popped file f
propagate(st, links, fc, f) ==
    LET outs == links[f].outgoing_links
        F[k \in 0..Len(outs)] ==
            IF k = 0 THEN st
            ELSE LET fi == outs[k]
                     s  == F[k - 1]
                 IN  IF ~s.is_public[fi] /\ fc[fi] # fc[f]
                     THEN [is_public |-> [s.is_public EXCEPT ![fi] = TRUE],
                           to_visit  |-> Append(s.to_visit, fi)]
                     ELSE s
    IN  F[Len(outs)]

RECURSIVE drain(_, _, _)
drain(st, links, fc) ==
    IF st.to_visit = <<>> THEN st
    ELSE drain(propagate([st EXCEPT !.to_visit = Tail(@)], links, fc,
                         Head(st.to_visit)),
               links, fc)

first_pass(links, fc) ==
    LET F[f \in 0..Len(links)] ==
            IF f = 0 THEN [is_public |-> [i \in 1..Len(links) |-> FALSE],
                           to_visit  |-> <<>>]
            ELSE mark_crossing(F[f - 1], links, fc, f)
    IN  F[Len(links)]

generate_is_public(links, fc) == drain(first_pass(links, fc), links, fc).is_public

(***************************************************************************)
(* graph.rs / cli.rs: lookups                                              *)
(***************************************************************************)
nice_name(c) == IF c.path = "" THEN "." ELSE c.path

\* Graph::component_name_to_ref: 0 stands for None
component_name_to_ref(name) ==
    IF \E i \in 1..Len(components) : nice_name(components[i]) = name
    THEN CHOOSE i \in 1..Len(components) :
            /\ nice_name(components[i]) = name
            /\ \A j \in 1..(i - 1) : nice_name(components[j]) # name
    ELSE 0

is_header(file_ref) ==
    LET path == files[file_ref].path
    IN  ends_with(path, ".h") \/ ends_with(path, ".hpp") \/ ends_with(path, "hxx")

(***************************************************************************)
(* cli.rs: the header classifier                                           *)
(***************************************************************************)
\* faulty variant: only the links from outside the component count
public_links_outside(file_ref) ==
    LET c == file_components[file_ref]
    IN  SelectSeq(file_links[file_ref].incoming_links,
                  LAMBDA f_ref : file_components[f_ref] # c)

\* the incoming links that come from outside the component or from a public file
public_links(file_ref) ==
    LET c == file_components[file_ref]
    IN  SelectSeq(file_links[file_ref].incoming_links,
                  LAMBDA f_ref : file_components[f_ref] # c \/ file_is_public[f_ref])

\* included only once, by a file whose path contains the header's stem
is_solo(file_ref) ==
    LET links == file_links[file_ref].incoming_links
        base_name == rsplit_nth(files[file_ref].path, "/", 0).val
        stem == rsplit_nth(base_name, ".", 1)
    IN  /\ Len(links) = 1
        /\ stem.some
        /\ contains(files[links[1]].path, stem.val)

\* faulty variant: a header without public links that is not solo counts as dead
header_section_dead_unless_solo(file_ref) ==
    IF public_links(file_ref) # <<>> THEN "Public"
    ELSE IF is_header(file_ref)
         THEN IF is_solo(file_ref) THEN "Solo" ELSE "Dead"
         ELSE ""

\* the list print_headers pushes file_ref to ("" when it pushes it to none)
header_section(file_ref) ==
    IF public_links(file_ref) # <<>> THEN "Public"
    ELSE IF is_header(file_ref)
         THEN IF file_links[file_ref].incoming_links # <<>>
              THEN IF is_solo(file_ref) THEN "Solo" ELSE "Private"
              ELSE "Dead"
         ELSE ""

\* the pair pushed for file_ref
header_entry(file_ref) ==
    LET sec == header_section(file_ref)
    IN  <<file_ref,
          IF sec = "Public" THEN public_links(file_ref)
          ELSE IF sec = "Solo" THEN <<file_links[file_ref].incoming_links[1]>>
          ELSE <<>> >>

\* headers.sort_by(path): insertion of e into an already sorted list
RECURSIVE insert_sorted(_, _)
insert_sorted(sorted, e) ==
    IF sorted = <<>> THEN <<e>>
    ELSE IF str_less(files[e[1]].path, files[Head(sorted)[1]].path)
         THEN <<e>> \o sorted
         ELSE <<Head(sorted)>> \o insert_sorted(Tail(sorted), e)

sort_by_path(entries) ==
    LET F[k \in 0..Len(entries)] ==
            IF k = 0 THEN <<>> ELSE insert_sorted(F[k - 1], entries[Len(entries) + 1 - k])
    IN  F[Len(entries)]

section_of(c_ref, title) ==
    LET fs == component_files[c_ref]
        F[k \in 0..Len(fs)] ==
            IF k = 0 THEN <<>>
            ELSE IF header_section(fs[k]) = title
                 THEN Append(F[k - 1], header_entry(fs[k]))
                 ELSE F[k - 1]
    IN  sort_by_path(F[Len(fs)])

SectionTitles == <<"Public", "Private", "Solo", "Dead">>

print_headers(c_ref) ==
    [k \in 1..4 |-> [title |-> SectionTitles[k],
                     headers |-> section_of(c_ref, SectionTitles[k])]]

(***************************************************************************)
(* graph.rs: load                                                          *)
(***************************************************************************)
\* the resolver load selects: [links, panic, stdout]
resolve_links(fs, fc, opts) ==
    IF compile_commands.given
    THEN IF compile_commands.ok
         THEN generate_file_links_from_commands(fs, compile_commands.map, opts)
         ELSE [links |-> <<>>, panic |-> TRUE, stdout |-> {}]
    ELSE LET r == generate_file_links(fs, fc, opts)
         IN  [links |-> r.links, panic |-> FALSE, stdout |-> r.stdout]

Load ==
    /\ pc = "scan"
    /\ walk_state = "returned"
    /\ LET fc == files_to_components(files, components)
           r  == resolve_links(files, fc, options)
       IN  IF default_component(components) = 0
           THEN /\ pc' = "panic"
                /\ UNCHANGED <<graph_vars, printed, gui>>
           ELSE IF r.panic
           THEN /\ pc' = "panic"
                /\ printed' = printed \cup r.stdout
                /\ UNCHANGED graph_vars
           ELSE /\ file_components' = fc
                /\ component_files' = build_component_files(fc, Len(components))
                /\ file_links' = r.links
                /\ file_is_public' = generate_is_public(r.links, fc)
                /\ printed' = printed \cup r.stdout
                /\ pc' = "loaded"
    /\ UNCHANGED <<scan_vars, input_vars, out, gui>>

(***************************************************************************)
(* cli.rs: the queries                                                     *)
(***************************************************************************)
QueryNames == {nice_name(components[i]) : i \in 1..Len(components)} \cup {"nope"}

PrintHeaders ==
    /\ pc = "loaded"
    /\ \E component_name \in QueryNames :
         LET c_ref == component_name_to_ref(component_name)
         IN  out' = IF c_ref = 0
                    THEN [cmd |-> "headers", component_name |-> component_name, exit |-> 1,
                          stderr |-> <<"component not found: ", component_name>>]
                    ELSE [cmd |-> "headers", component_name |-> component_name, exit |-> 0,
                          c_ref |-> c_ref, sections |-> print_headers(c_ref)]
    /\ pc' = "done"
    /\ UNCHANGED <<scan_vars, input_vars, graph_vars, printed, gui>>

(***************************************************************************)
(* graph.rs: linked_components; cli.rs: print_components                   *)
(***************************************************************************)
Edge(from, to) == [from |-> from, to |-> to]

\* a HashMap<ComponentRef, Vec<Edge>>: the edges grouped by the component of
\* their end ("from" or "to"), in push order
group_by(edges, end) ==
    [co \in {file_components[edges[i][end]] : i \in 1..Len(edges)} |->
        SelectSeq(edges, LAMBDA e : file_components[e[end]] = co)]

\* faulty variant: the filter of the incoming map tests the target file
incoming_edges_target_public(c, only_public) ==
    LET fs == component_files[c]
        of_file(f) ==
            LET links == file_links[f].incoming_links
            IN  SelectSeq([j \in 1..Len(links) |-> Edge(links[j], f)],
                          LAMBDA e : /\ ~only_public \/ file_is_public[e.to]
                                     /\ file_components[e.from] # c)
        F[k \in 0..Len(fs)] == IF k = 0 THEN <<>> ELSE F[k - 1] \o of_file(fs[k])
    IN  F[Len(fs)]

\* the edges pushed to the incoming map, in push order
incoming_edges(c, only_public) ==
    LET fs == component_files[c]
        of_file(f) ==
            LET links == file_links[f].incoming_links
            IN  SelectSeq([j \in 1..Len(links) |-> Edge(links[j], f)],
                          LAMBDA e : /\ ~only_public \/ file_is_public[e.from]
                                     /\ file_components[e.from] # c)
        F[k \in 0..Len(fs)] == IF k = 0 THEN <<>> ELSE F[k - 1] \o of_file(fs[k])
    IN  F[Len(fs)]

\* the edges pushed to the outgoing map, in push order
outgoing_edges(c, only_public) ==
    LET fs == component_files[c]
        of_file(f) ==
            LET links == file_links[f].outgoing_links
            IN  IF ~only_public \/ file_is_public[f]
                THEN SelectSeq([j \in 1..Len(links) |-> Edge(f, links[j])],
                               LAMBDA e : file_components[e.to] # c)
                ELSE <<>>
        F[k \in 0..Len(fs)] == IF k = 0 THEN <<>> ELSE F[k - 1] \o of_file(fs[k])
    IN  F[Len(fs)]

linked_components(c, only_public) ==
    [incoming |-> group_by(incoming_edges(c, only_public), "from"),
     outgoing |-> group_by(outgoing_edges(c, only_public), "to")]

\* the orders sort_by(path) can leave the components in: ascending by path,
\* components of equal path in any order (the keys come out of a HashMap)
PathOrders ==
    {r \in [1..Len(components) -> 1..Len(components)] :
        /\ \A i, j \in 1..Len(components) : i # j => r[i] # r[j]
        /\ \A i \in 1..(Len(components) - 1) :
             ~str_less(components[r[i + 1]].path, components[r[i]].path)}

\* an Option<String> filter: None lets every name through
name_matches(filter, name) == IF filter.some THEN filter.val = name ELSE TRUE

\* print_deps: the keys in the order rank, those the filter lets through;
\* edges are the lines --verbose adds
print_deps(deps, component_to, rank) ==
    LET sorted_keys == SelectSeq(rank, LAMBDA c_ref : c_ref \in DOMAIN deps)
        shown == SelectSeq(sorted_keys,
                           LAMBDA c_ref : name_matches(component_to, nice_name(components[c_ref])))
    IN  [k \in 1..Len(shown) |-> [c_ref |-> shown[k], edges |-> deps[shown[k]]]]

print_component(c, component_to, only_public, rank) ==
    LET deps == linked_components(c, only_public)
    IN  [c_ref |-> c,
         count |-> Len(component_files[c]),
         incoming |-> print_deps(deps.incoming, component_to, rank),
         outgoing |-> print_deps(deps.outgoing, component_to, rank)]

print_components(component_from, component_to, only_public, rank) ==
    LET sel == SelectSeq([i \in 1..Len(components) |-> i],
                         LAMBDA c_ref : name_matches(component_from, nice_name(components[c_ref])))
    IN  [k \in 1..Len(sel) |-> print_component(sel[k], component_to, only_public, rank)]

OptionalNames == {None} \cup {Some(n) : n \in QueryNames}

PrintComponents ==
    /\ pc = "loaded"
    /\ \E rank \in PathOrders, component_from \in OptionalNames,
          component_to \in OptionalNames, only_public \in BOOLEAN :
         out' = [cmd |-> "components", exit |-> 0,
                 component_from |-> component_from, component_to |-> component_to,
                 only_public |-> only_public,
                 blocks |-> print_components(component_from, component_to, only_public, rank)]
    /\ pc' = "done"
    /\ UNCHANGED <<scan_vars, input_vars, graph_vars, printed, gui>>

(***************************************************************************)
(* cli.rs: print_shortest                                                  *)
(***************************************************************************)
\* u32::max_value(), the distance of a component not reached yet. It is
\* 4294967295 in the program; the integers of TLC end at 2147483647, and a
\* distance never exceeds the number of components.
U32_MAX == 2147483647

\* faulty variant: only_public is ignored
skip_file_never(c, c_from, only_public, f) == FALSE

\* faulty variant: with only_public, a file that is not public is passed over in
\* every component
skip_file_everywhere(c, c_from, only_public, f) ==
    only_public /\ ~file_is_public[f]

\* a file of the start component that is not public is passed over
skip_file(c, c_from, only_public, f) ==
    c = c_from /\ only_public /\ ~file_is_public[f]

\* the components of the outgoing links followed from c_source, in visiting order
bfs_targets(c_source, c_from, only_public) ==
    LET fs == component_files[c_source]
        of_file(f) ==
            LET links == file_links[f].outgoing_links
            IN  IF skip_file(c_source, c_from, only_public, f) THEN <<>>
                ELSE [j \in 1..Len(links) |-> file_components[links[j]]]
        F[k \in 0..Len(fs)] == IF k = 0 THEN <<>> ELSE F[k - 1] \o of_file(fs[k])
    IN  F[Len(fs)]

\* the inner loop body over the targets of c_source; st is [dists, queue]
relax(st, c_source, dist, targets) ==
    LET F[k \in 0..Len(targets)] ==
            IF k = 0 THEN st
            ELSE LET c == targets[k]
                 IN  IF F[k - 1].dists[c].d > dist
                     THEN [dists |-> [F[k - 1].dists EXCEPT
                                         ![c] = [parent |-> c_source, d |-> dist]],
                           queue |-> Append(F[k - 1].queue, c)]
                     ELSE F[k - 1]
    IN  F[Len(targets)]

\* while let Some(c_source) = queue.pop_front()
RECURSIVE bfs(_, _, _)
bfs(st, c_from, only_public) ==
    IF st.queue = <<>> THEN st.dists
    ELSE LET c_source == Head(st.queue)
             dist == st.dists[c_source].d + 1
         IN  bfs(relax([st EXCEPT !.queue = Tail(@)], c_source, dist,
                       bfs_targets(c_source, c_from, only_public)),
                 c_from, only_public)

shortest_dists(c_from, only_public) ==
    bfs([dists |-> [[c \in 1..Len(components) |-> [parent |-> 1, d |-> U32_MAX]]
                       EXCEPT ![c_from] = [parent |-> c_from, d |-> 0]],
         queue |-> <<c_from>>],
        c_from, only_public)

\* while c != c_from { result.push(c); c = dists[c].0 }
RECURSIVE walk_back(_, _, _, _)
walk_back(dists, c, c_from, result) ==
    IF c = c_from THEN result
    ELSE walk_back(dists, dists[c].parent, c_from, Append(result, c))

\* faulty variant: the result is not reversed
shortest_path_backwards(dists, c_from, c_to) ==
    Append(walk_back(dists, c_to, c_from, <<>>), c_from)

shortest_path(dists, c_from, c_to) ==
    Reverse(Append(walk_back(dists, c_to, c_from, <<>>), c_from))

\* the lines --verbose prints under result[i]: the links from c into c2
hop_edges(c, c2, c_from, only_public) ==
    LET fs == component_files[c]
        of_file(f) ==
            LET links == file_links[f].outgoing_links
            IN  IF skip_file(c, c_from, only_public, f) THEN <<>>
                ELSE SelectSeq([j \in 1..Len(links) |-> Edge(f, links[j])],
                               LAMBDA e : file_components[e.to] = c2)
        F[k \in 0..Len(fs)] == IF k = 0 THEN <<>> ELSE F[k - 1] \o of_file(fs[k])
    IN  F[Len(fs)]

print_shortest(c_from, c_to, only_public) ==
    LET dists == shortest_dists(c_from, only_public)
    IN  IF dists[c_to].d = U32_MAX
        THEN [found |-> FALSE, stdout |-> "No path found.", result |-> <<>>, hops |-> <<>>]
        ELSE LET result == shortest_path(dists, c_from, c_to)
             IN  [found |-> TRUE, stdout |-> "", result |-> result,
                  hops |-> [i \in 1..(Len(result) - 1) |->
                               hop_edges(result[i], result[i + 1], c_from, only_public)]]

PrintShortest ==
    /\ pc = "loaded"
    /\ \E component_from \in QueryNames, component_to \in QueryNames,
          only_public \in BOOLEAN :
         LET c_from == component_name_to_ref(component_from)
             c_to == component_name_to_ref(component_to)
             args == [cmd |-> "shortest", component_from |-> component_from,
                      component_to |-> component_to, only_public |-> only_public]
         IN  out' = IF c_from = 0
                    THEN args @@ [exit |-> 1,
                                  stderr |-> <<"component not found: ", component_from>>]
                    ELSE IF c_to = 0
                    THEN args @@ [exit |-> 1,
                                  stderr |-> <<"component not found: ", component_to>>]
                    ELSE args @@ [exit |-> 0, c_from |-> c_from, c_to |-> c_to]
                              @@ print_shortest(c_from, c_to, only_public)
    /\ pc' = "done"
    /\ UNCHANGED <<scan_vars, input_vars, graph_vars, printed, gui>>

(***************************************************************************)
(* cli.rs: show_sccs (Tarjan)                                              *)
(***************************************************************************)
Min(a, b) == IF a < b THEN a ELSE b

\* the successors of v: the components its files link to, v itself left out
successors(v) ==
    LET fs == component_files[v]
        of_file(f) ==
            LET links == file_links[f].outgoing_links
            IN  [j \in 1..Len(links) |-> file_components[links[j]]]
        F[k \in 0..Len(fs)] == IF k = 0 THEN <<>> ELSE F[k - 1] \o of_file(fs[k])
    IN  SelectSeq(F[Len(fs)], LAMBDA c : c # v)

\* faulty variant: a successor already visited never lowers the lowlink
back_edge_ignored(t, v, w) == t

\* a successor already visited: it lowers the lowlink of v when it is on the stack
back_edge(t, v, w) ==
    IF t.on_stack[w]
    THEN [t EXCEPT !.lowlink[v] = Min(t.lowlink[v], t.indices[w])]
    ELSE t

\* v is a root: pop the stack down to v into a new scc
pop_scc(t, v) ==
    LET pos == CHOOSE i \in 1..Len(t.stack) : t.stack[i] = v
        popped == Reverse(SubSeq(t.stack, pos, Len(t.stack)))
    IN  [t EXCEPT !.stack = SubSeq(t.stack, 1, pos - 1),
                  !.on_stack = [c \in DOMAIN t.on_stack |->
                                   IF c \in Range(popped) THEN FALSE ELSE t.on_stack[c]],
                  !.sccs = Append(t.sccs, popped)]

RECURSIVE strong_connect(_, _)
RECURSIVE consider_successors(_, _, _, _)
\* the loop over the successors ws of v, from position k on
consider_successors(t, v, ws, k) ==
    IF k > Len(ws) THEN t
    ELSE LET w == ws[k]
         IN  IF t.indices[w] = -1
             THEN LET t2 == strong_connect(t, w)
                  IN  consider_successors(
                          [t2 EXCEPT !.lowlink[v] = Min(t2.lowlink[v], t2.lowlink[w])],
                          v, ws, k + 1)
             ELSE consider_successors(back_edge(t, v, w), v, ws, k + 1)

strong_connect(t, v) ==
    LET t1 == [t EXCEPT !.indices[v] = t.index,
                        !.lowlink[v] = t.index,
                        !.index = t.index + 1,
                        !.stack = Append(t.stack, v),
                        !.on_stack[v] = TRUE]
        t2 == consider_successors(t1, v, successors(v), 1)
    IN  IF t2.lowlink[v] = t2.indices[v] THEN pop_scc(t2, v) ELSE t2

\* Tarjan::run
tarjan_run ==
    LET n == Len(components)
        t0 == [index |-> 0,
               indices |-> [c \in 1..n |-> -1],
               lowlink |-> [c \in 1..n |-> -1],
               on_stack |-> [c \in 1..n |-> FALSE],
               stack |-> <<>>,
               sccs |-> <<>>]
        F[v \in 0..n] ==
            IF v = 0 THEN t0
            ELSE IF F[v - 1].indices[v] = -1 THEN strong_connect(F[v - 1], v) ELSE F[v - 1]
    IN  F[n].sccs

\* the groups printed: the sccs of more than one member, each reversed
show_sccs ==
    LET big == SelectSeq(tarjan_run, LAMBDA scc : Len(scc) > 1)
    IN  [k \in 1..Len(big) |-> Reverse(big[k])]

ShowSccs ==
    /\ pc = "loaded"
    /\ out' = [cmd |-> "scc", exit |-> 0, groups |-> show_sccs]
    /\ pc' = "done"
    /\ UNCHANGED <<scan_vars, input_vars, graph_vars, printed, gui>>

(***************************************************************************)
(* cli.rs: print_file_info                                                 *)
(***************************************************************************)
\* files.iter().enumerate().find(|(_, f)| f.path == file_name): 0 stands for None
find_file(file_name) ==
    IF \E i \in 1..Len(files) : files[i].path = file_name
    THEN CHOOSE i \in 1..Len(files) :
            /\ files[i].path = file_name
            /\ \A j \in 1..(i - 1) : files[j].path # file_name
    ELSE 0

print_file_info(f_ref) ==
    [incoming |-> [k \in 1..Len(file_links[f_ref].incoming_links) |->
                      files[file_links[f_ref].incoming_links[k]].path],
     outgoing |-> [k \in 1..Len(file_links[f_ref].outgoing_links) |->
                      files[file_links[f_ref].outgoing_links[k]].path]]

FileQueryNames == {files[i].path : i \in 1..Len(files)} \cup {"nope.h"}

PrintFileInfo ==
    /\ pc = "loaded"
    /\ \E file_name \in FileQueryNames :
         LET f_ref == find_file(file_name)
             args == [cmd |-> "file", file_name |-> file_name]
         IN  out' = IF f_ref = 0
                    THEN args @@ [exit |-> 1, stderr |-> <<"file not found: ", file_name>>]
                    ELSE args @@ [exit |-> 0, f_ref |-> f_ref] @@ print_file_info(f_ref)
    /\ pc' = "done"
    /\ UNCHANGED <<scan_vars, input_vars, graph_vars, printed, gui>>

(***************************************************************************)
(* ui.rs: the terminal UI                                                  *)
(*                                                                         *)
(* gui.sel_column and gui.selected hold the program's 0-based values;      *)
(* gui.selected[i + 1] is columns[i].list_state.selected(), which is always *)
(* Some: Column::new selects 0 and only select(Some(..)) is ever called.   *)
(* Drawing a List reads the selection and does not change it.              *)
(***************************************************************************)
\* sorted_projects: the component refs ascending by nice_name (sort_by is stable)
sorted_projects ==
    CHOOSE r \in [1..Len(components) -> 1..Len(components)] :
        /\ \A i, j \in 1..Len(components) : i # j => r[i] # r[j]
        /\ \A i \in 1..(Len(components) - 1) :
             LET a == nice_name(components[r[i]])
                 b == nice_name(components[r[i + 1]])
             IN  str_less(a, b) \/ (a = b /\ r[i] < r[i + 1])

\* format!("{} -> {}", from.path, to.path)
edge_description(e) == files[e.from].path \o " -> " \o files[e.to].path

\* result: [names, files]; rank is the order sort_by(path) leaves the keys in
get_dependencies_and_edge_descriptions(deps, rank) ==
    LET sorted_keys == SelectSeq(rank, LAMBDA c_ref : c_ref \in DOMAIN deps)
    IN  [names |-> [k \in 1..Len(sorted_keys) |-> nice_name(components[sorted_keys[k]])],
         files |-> [k \in 1..Len(sorted_keys) |->
                       [j \in 1..Len(deps[sorted_keys[k]]) |->
                           edge_description(deps[sorted_keys[k]][j])]]]

\* Gui at the start of show_ui, before the first pass of the loop
new_gui ==
    [shown |-> TRUE,
     invalid |-> TRUE,
     sel_column |-> 0,
     items |-> <<[k \in 1..Len(components) |-> nice_name(components[sorted_projects[k]])],
                 <<>>, <<>> >>,
     selected |-> <<0, 0, 0>>,
     show_incoming_links |-> TRUE,
     show_only_public |-> FALSE,
     field_heights |-> <<0, 0, 0>>]

\* the head of the loop: if gui.invalid, columns 1 and 2 get their items anew
refresh(g, rank) ==
    IF ~g.invalid THEN g
    ELSE LET d == linked_components(sorted_projects[g.selected[1] + 1], g.show_only_public)
             r == get_dependencies_and_edge_descriptions(
                      IF g.show_incoming_links THEN d.incoming ELSE d.outgoing, rank)
             n == g.selected[2]
         IN  [g EXCEPT !.items[2] = r.names,
                       !.items[3] = IF n + 1 <= Len(r.files) THEN r.files[n + 1] ELSE <<>>]

\* terminal.draw: the heights of the three rectangles are noted
draw(g, heights) == [g EXCEPT !.field_heights = heights]

\* Gui::on_up
on_up(g) ==
    LET i == g.sel_column + 1
        selected == g.selected[i]
    IN  IF selected > 0
        THEN [g EXCEPT !.invalid = TRUE,
                       !.selected = [c \in 1..3 |->
                                        IF c = i THEN selected - 1
                                        ELSE IF c > i THEN 0 ELSE g.selected[c]]]
        ELSE g

\* Gui::on_down
on_down(g) ==
    LET i == g.sel_column + 1
        selected == g.selected[i]
    IN  IF selected + 1 < Len(g.items[i])
        THEN [g EXCEPT !.invalid = TRUE,
                       !.selected = [c \in 1..3 |->
                                        IF c = i THEN selected + 1
                                        ELSE IF c > i THEN 0 ELSE g.selected[c]]]
        ELSE g

\* for _ in 0..field_heights[gui.sel_column] { gui.on_up() }
RECURSIVE page_up(_, _)
page_up(g, n) == IF n = 0 THEN g ELSE page_up(on_up(g), n - 1)

RECURSIVE page_down(_, _)
page_down(g, n) == IF n = 0 THEN g ELSE page_down(on_down(g), n - 1)

KeyCodes == {"Up", "Down", "PageUp", "PageDown", "Left", "Right", "i", "o", "p", "x"}

\* the match on event.code, Ctrl-C apart
on_key(g, code) ==
    CASE code = "i" -> [g EXCEPT !.selected[2] = 0, !.show_incoming_links = TRUE]
      [] code = "o" -> [g EXCEPT !.selected[2] = 0, !.show_incoming_links = FALSE]
      [] code = "p" -> [g EXCEPT !.selected[2] = 0, !.show_only_public = ~@]
      [] code = "Up" -> on_up(g)
      [] code = "PageUp" -> page_up(g, g.field_heights[g.sel_column + 1])
      [] code = "Down" -> on_down(g)
      [] code = "PageDown" -> page_down(g, g.field_heights[g.sel_column + 1])
      [] code = "Left" -> IF g.sel_column > 0 THEN [g EXCEPT !.sel_column = @ - 1] ELSE g
      [] code = "Right" -> IF g.sel_column < 2 THEN [g EXCEPT !.sel_column = @ + 1] ELSE g
      [] OTHER -> g

\* the heights the terminal gives the three rectangles
TerminalHeights == {<<1, 1, 1>>, <<3, 3, 3>>}

\* show_ui up to the first rx.recv()
ShowUi ==
    /\ pc = "loaded"
    /\ \E heights \in TerminalHeights, rank \in PathOrders :
         gui' = draw(refresh(new_gui, rank), heights)
    /\ pc' = "ui"
    /\ UNCHANGED <<scan_vars, input_vars, graph_vars, printed, out>>

\* one key other than Ctrl-C arrives: its match arm, then the next pass of the
\* loop up to rx.recv()
KeyEvent ==
    /\ pc = "ui"
    /\ \E code \in KeyCodes, rank \in PathOrders :
         gui' = draw(refresh(on_key(gui, code), rank), gui.field_heights)
    /\ UNCHANGED <<scan_vars, input_vars, graph_vars, printed, out, pc>>

\* Ctrl-C: the loop is left
CtrlC ==
    /\ pc = "ui"
    /\ pc' = "done"
    /\ UNCHANGED <<scan_vars, input_vars, graph_vars, printed, out, gui>>

(***************************************************************************)
(* The inputs: the trees the program is run on.                            *)
(***************************************************************************)
\* the ascending sequence of the members of a set of numbers
SetToSeq(S) ==
    LET n == Cardinality(S)
        F[k \in 0..n] ==
            IF k = 0 THEN <<>>
            ELSE Append(F[k - 1],
                        CHOOSE x \in S : Cardinality({y \in S : y < x}) = k - 1)
    IN  F[n]

\* include occurrences of a tree of k files: (position of the file, include string)
IncludeSlotsUpTo(k, incU, n) ==
    UNION {{sl \in [1..t -> (1..k) \X incU] :
                \A j \in 1..(t - 1) : sl[j][1] <= sl[j + 1][1]} :
           t \in 0..(IF k = 0 THEN 0 ELSE n)}

IncludeSlots(k, incU) == IncludeSlotsUpTo(k, incU, MaxIncludes)

includes_of(sl, i) ==
    LET own == SelectSeq(sl, LAMBDA e : e[1] = i)
    IN  [j \in 1..Len(own) |-> own[j][2]]

\* file lists of at most MaxFiles files with at most MaxIncludes includes in all
FileListsUpTo(pathU, incU, n) ==
    UNION {{[i \in 1..Cardinality(S) |->
                [path |-> pathU[SetToSeq(S)[i]], include_paths |-> includes_of(sl, i)]] :
            sl \in IncludeSlotsUpTo(Cardinality(S), incU, n)} :
           S \in {T \in SUBSET (1..Len(pathU)) : Cardinality(T) <= MaxFiles}}

FileLists(pathU, incU) == FileListsUpTo(pathU, incU, MaxIncludes)

\* component lists: the markers found, and the root component
ComponentLists(dirs) ==
    {[i \in 1..Cardinality(M) |-> [path |-> dirs[SetToSeq(M)[i]]]] \o <<[path |-> ""]>> :
        M \in SUBSET (1..Len(dirs))}

\* the disk a scanned tree (files fs, components cs) was read from
tree_disk(r, fs, cs) ==
    LET fpaths == {join(r, fs[i].path) : i \in 1..Len(fs)}
        mpaths == {join(join(r, cs[i].path), "CMakeLists.txt") :
                      i \in {j \in 1..Len(cs) : cs[j].path # ""}}
    IN  [p \in fpaths \cup mpaths |->
            IF p \in fpaths
            THEN Readable(fs[CHOOSE i \in 1..Len(fs) : join(r, fs[i].path) = p].include_paths)
            ELSE Readable(<<>>)]

EmptyGraph ==
    /\ file_components = <<>>
    /\ component_files = <<>>
    /\ file_links = <<>>
    /\ file_is_public = <<>>

\* the scanner has returned
Scanned ==
    /\ pending = {}
    /\ threads = [w \in 1..NumWorkers |-> DeadThread]
    /\ walk_state = "returned"

(***************************************************************************)
(* Spec: the build in heuristic mode, then one query.                      *)
(***************************************************************************)
PathUniverse == <<"a/m.cpp", "a/u.h", "a/b/u.h", "b/u.h">>
IncludeUniverse == {"u.h", "b/u.h", "m.cpp"}
MarkerDirs == <<"a", "a/b", "b">>

Init ==
    /\ root = "/r"
    /\ options = NoWarn
    /\ printed = {}
    /\ Scanned
    /\ files \in FileLists(PathUniverse, IncludeUniverse)
    /\ components \in ComponentLists(MarkerDirs)
    /\ compile_commands = NoDb
    /\ disk = tree_disk(root, files, components)
    /\ pc = "scan"
    /\ EmptyGraph
    /\ out = NoOut
    /\ gui = NoGui

Next ==
    \/ Load
    \/ PrintHeaders

Spec == Init /\ [][Next]_vars

(***************************************************************************)
(* SpecDb: the build in either mode (with or without a compilation         *)
(* database), then one query.                                              *)
(***************************************************************************)
DbPathUniverse == <<"a/m.cpp", "a/u.h", "b/u.h", "b/U.h">>
DbIncludeUniverse == {"u.h", "U.h", "m.cpp"}
DbComponentLists == {<<[path |-> "a"], [path |-> "b"], [path |-> ""]>>, <<[path |-> ""]>>}
OutsideDisk == [p \in {"/usr/u.h"} |-> Readable(<<>>)]

Db(tus, dirs) == [given |-> TRUE, ok |-> TRUE, map |-> [t \in tus |-> dirs]]

\* load_compile_commands returned Err: the file cannot be opened or is no JSON
DbFault == [given |-> TRUE, ok |-> FALSE]

DbOptions(r, fs) ==
    LET abs(i) == join(r, fs[i].path)
        all == {abs(i) : i \in 1..Len(fs)}
        cpp == {abs(i) : i \in {j \in 1..Len(fs) : ends_with(fs[j].path, ".cpp")}}
    IN  {NoDb,
         Db(cpp, <<"/r/a", "/r/b">>),
         Db(all, <<"/r/b", "/r/a">>),
         Db(all, <<"/usr", "/r/a">>),
         DbFault}

InitDb ==
    /\ root = "/r"
    /\ options = NoWarn
    /\ printed = {}
    /\ Scanned
    /\ files \in FileLists(DbPathUniverse, DbIncludeUniverse)
    /\ components \in DbComponentLists
    /\ compile_commands \in DbOptions(root, files)
    /\ disk = tree_disk(root, files, components) @@ OutsideDisk
    /\ pc = "scan"
    /\ EmptyGraph
    /\ out = NoOut
    /\ gui = NoGui

SpecDb == InitDb /\ [][Next]_vars

(***************************************************************************)
(* SpecScan: the parallel walk, then the build and one query.              *)
(***************************************************************************)
ScanRoots == {"/r", "x/"}

\* the UTF-16 bytes of ..\..\m.cpp, and of a capture with a code unit that is
\* no character of the model and an odd last byte
Utf16ParentM ==
    <<46, 0, 46, 0, 92, 0, 46, 0, 46, 0, 92, 0, 109, 0, 46, 0, 99, 0, 112, 0, 112, 0>>
Utf16Odd == <<46, 0, 46, 0, 47, 0, 46, 0, 46, 0, 0, 216, 104, 0, 46>>

\* the entries a tree may hold, by path relative to the root
ScanEntries ==
    [p \in {"CMakeLists.txt", "r/CMakeLists.txt", "m.cpp", "r/u.h", "r/bad.c", "r/notes.txt",
            "r/v.hxx"} |->
        IF p = "m.cpp" THEN Content(<<"..\\r/u.h">>, <<Utf16ParentM>>)
        ELSE IF p = "r/u.h" THEN Content(<<>>, <<Utf16ParentM, Utf16Odd>>)
        ELSE IF p = "r/bad.c" THEN Unreadable
        ELSE Readable(<<>>)]

InitScan ==
    /\ root \in ScanRoots
    /\ options \in AllOptions
    /\ printed = {}
    /\ \E T \in {E \in SUBSET (DOMAIN ScanEntries) : Cardinality(E) <= MaxEntries} :
         disk = [p \in {join(root_path, e) : e \in T} |->
                    ScanEntries[CHOOSE e \in T : join(root_path, e) = p]]
    /\ pending = DOMAIN disk
    /\ threads = [w \in 1..NumWorkers |-> NewThread]
    /\ walk_state = "walking"
    /\ files = <<>>
    /\ components = <<>>
    /\ compile_commands = NoDb
    /\ pc = "scan"
    /\ EmptyGraph
    /\ out = NoOut
    /\ gui = NoGui

NextScan ==
    \/ Visit
    \/ Drop
    \/ ReadFilesReturn
    \/ Load
    \/ PrintHeaders

SpecScan == InitScan /\ [][NextScan]_vars

(***************************************************************************)
(* SpecQuery: the build in heuristic mode on a tree of up to three         *)
(* components that can include one another in a cycle, then one query.     *)
(***************************************************************************)
QueryPathUniverse == <<"p/x.h", "q/xy.h", "r/z.h">>
QueryIncludeUniverse == {"x.h", "xy.h", "z.h"}
QueryComponentLists ==
    {<<[path |-> "p"], [path |-> "q"], [path |-> "r"], [path |-> ""]>>, <<[path |-> ""]>>}

InitQuery ==
    /\ root = "/r"
    /\ options = NoWarn
    /\ printed = {}
    /\ Scanned
    /\ files \in FileListsUpTo(QueryPathUniverse, QueryIncludeUniverse, MaxQueryIncludes)
    /\ components \in QueryComponentLists
    /\ compile_commands = NoDb
    /\ disk = tree_disk(root, files, components)
    /\ pc = "scan"
    /\ EmptyGraph
    /\ out = NoOut
    /\ gui = NoGui

NextQuery ==
    \/ Load
    \/ PrintHeaders
    \/ PrintShortest
    \/ ShowSccs
    \/ PrintFileInfo

SpecQuery == InitQuery /\ [][NextQuery]_vars

(***************************************************************************)
(* SpecComponents: trees of the same files, then one component listing.    *)
(***************************************************************************)
InitComponents ==
    /\ root = "/r"
    /\ options = NoWarn
    /\ printed = {}
    /\ Scanned
    /\ files \in FileLists(QueryPathUniverse, QueryIncludeUniverse)
    /\ components \in QueryComponentLists
    /\ compile_commands = NoDb
    /\ disk = tree_disk(root, files, components)
    /\ pc = "scan"
    /\ EmptyGraph
    /\ out = NoOut
    /\ gui = NoGui

NextComponents ==
    \/ Load
    \/ PrintComponents

SpecComponents == InitComponents /\ [][NextComponents]_vars

(***************************************************************************)
(* SpecShortest: trees of five headers in three components (two in p, two  *)
(* in q, one in r) with some of seven includes, then one shortest-path     *)
(* query or one header listing.                                            *)
(***************************************************************************)
\* the headers, each with the includes it may hold
ShortestTree ==
    <<[path |-> "p/a.h",  include_paths |-> <<"b1.h">>],
      [path |-> "p/a2.h", include_paths |-> <<"c.h", "a2.h">>],
      [path |-> "q/b1.h", include_paths |-> <<"a.h">>],
      [path |-> "q/b2.h", include_paths |-> <<"c.h">>],
      [path |-> "r/c.h",  include_paths |-> <<"a.h", "a2.h">>]>>

ShortestSlots ==
    {sl \in (1..Len(ShortestTree)) \X (1..2) : sl[2] <= Len(ShortestTree[sl[1]].include_paths)}

\* the tree with the includes of the slots in S only
ShortestFiles(S) ==
    [i \in 1..Len(ShortestTree) |->
        LET kept == SetToSeq({j \in 1..2 : <<i, j>> \in S})
        IN  [path |-> ShortestTree[i].path,
             include_paths |-> [k \in 1..Len(kept) |->
                                   ShortestTree[i].include_paths[kept[k]]]]]

InitShortest ==
    /\ root = "/r"
    /\ options = NoWarn
    /\ printed = {}
    /\ Scanned
    /\ \E S \in SUBSET ShortestSlots :
          /\ Cardinality(S) <= MaxShortestIncludes
          /\ files = ShortestFiles(S)
    /\ components \in QueryComponentLists
    /\ compile_commands = NoDb
    /\ disk = tree_disk(root, files, components)
    /\ pc = "scan"
    /\ EmptyGraph
    /\ out = NoOut
    /\ gui = NoGui

NextShortest ==
    \/ Load
    \/ PrintShortest
    \/ PrintHeaders

SpecShortest == InitShortest /\ [][NextShortest]_vars

(***************************************************************************)
(* SpecUi: the trees of SpecShortest in their three components, then the   *)
(* terminal UI with any keys.                                              *)
(***************************************************************************)
InitUi ==
    /\ root = "/r"
    /\ options = NoWarn
    /\ printed = {}
    /\ Scanned
    /\ \E S \in SUBSET ShortestSlots :
          /\ Cardinality(S) <= MaxShortestIncludes
          /\ files = ShortestFiles(S)
    /\ components = <<[path |-> "p"], [path |-> "q"], [path |-> "r"], [path |-> ""]>>
    /\ compile_commands = NoDb
    /\ disk = tree_disk(root, files, components)
    /\ pc = "scan"
    /\ EmptyGraph
    /\ out = NoOut
    /\ gui = NoGui

NextUi ==
    \/ Load
    \/ ShowUi
    \/ KeyEvent
    \/ CtrlC

SpecUi == InitUi /\ [][NextUi]_vars

(***************************************************************************)
(* Properties                                                              *)
(***************************************************************************)
Built == pc \in {"loaded", "done"}

FileRefs == 1..Len(files)

Succ(f) == Range(file_links[f].outgoing_links)

\* the files reachable from the files of S in at most n further steps
RECURSIVE ReachFrom(_, _)
ReachFrom(S, n) ==
    IF n = 0 THEN S ELSE ReachFrom(S \cup UNION {Succ(f) : f \in S}, n - 1)

\* the files reachable from s in one or more steps along outgoing edges
Reachable(s) == ReachFrom(Succ(s), Len(files))

\* include string I names the file at path: I is the path or a '/'-suffix of it
names(I, path) == path = I \/ ends_with(path, "/" \o I)

Candidates(I) == {d \in FileRefs : names(I, files[d].path)}

\* the candidates of include I that file F is to be linked to
Linked(F, I) ==
    LET local == {d \in Candidates(I) : file_components[d] = file_components[F]}
    IN  IF local # {} THEN local ELSE Candidates(I)

\* C1: in heuristic mode every include occurrence of F is linked to the
\* candidates of its own component when there is one, to every candidate
\* otherwise, and to nothing else; each link is in outgoing(F) and incoming(d).
C1_SameComponentPreferred ==
    Built =>
        \A F \in FileRefs, d \in FileRefs :
            LET incs == files[F].include_paths
                n == Cardinality({k \in 1..Len(incs) : d \in Linked(F, incs[k])})
            IN  /\ Count(file_links[F].outgoing_links, d) = n
                /\ Count(file_links[d].incoming_links, F) = n

\* a candidate of another component was skipped in favour of a local one
C1_Witness ==
    /\ Built
    /\ \E F \in FileRefs : \E k \in 1..Len(files[F].include_paths) :
         \E d1, d2 \in Candidates(files[F].include_paths[k]) :
            /\ file_components[d1] = file_components[F]
            /\ file_components[d2] # file_components[F]
            /\ d1 \in Succ(F)
            /\ d2 \notin Succ(F)

\* C2: on every built graph, in either mode, a occurs in outgoing_links(b)
\* as often as b occurs in incoming_links(a).
C2_LinksConsistent ==
    Built =>
        \A a \in FileRefs, b \in FileRefs :
            Count(file_links[b].outgoing_links, a) = Count(file_links[a].incoming_links, b)

\* a graph built from a compilation database with an edge of multiplicity two
C2_Witness ==
    /\ Built
    /\ compile_commands.given
    /\ \E a \in FileRefs, b \in FileRefs : Count(file_links[b].outgoing_links, a) >= 2

\* C3: after load every file is in range and occurs exactly once in the file
\* list of its own component and in no other list.
C3_OneComponentPerFile ==
    Built =>
        /\ Len(component_files) = Len(components)
        /\ \A f \in FileRefs :
             /\ file_components[f] \in 1..Len(components)
             /\ \A c \in 1..Len(components) :
                  Count(component_files[c], f) = IF c = file_components[f] THEN 1 ELSE 0

\* files spread over two components, one of them holding two files
C3_Witness ==
    /\ Built
    /\ \E f, g, h \in FileRefs :
         /\ f # g
         /\ file_components[f] = file_components[g]
         /\ file_components[h] # file_components[f]

\* P is a proper directory prefix of path, cut at a '/' (the empty path is one)
DirPrefix(P, path) == P = "" \/ starts_with(path, P \o "/")

\* C4: each file is assigned to the component with the longest path that is a
\* directory prefix of the file path, the root component when there is no
\* other; the assignment never fails.
C4_LongestPrefix ==
    /\ pc # "panic"
    /\ Built =>
        \A f \in FileRefs :
            LET P == components[file_components[f]].path
            IN  /\ DirPrefix(P, files[f].path)
                /\ \A c \in 1..Len(components) :
                     DirPrefix(components[c].path, files[f].path)
                        => Len(components[c].path) <= Len(P)

\* a file under two nested markers is assigned to the inner one, and a file
\* under no marker to the root
C4_Witness ==
    /\ Built
    /\ \E f \in FileRefs, c \in 1..Len(components) :
         /\ components[c].path # ""
         /\ c # file_components[f]
         /\ DirPrefix(components[c].path, files[f].path)
    /\ \E f \in FileRefs : components[file_components[f]].path = ""
    /\ Len(components) > 1

NumRootComponents == Cardinality({i \in 1..Len(components) : components[i].path = ""})

MarkerOnDisk(dir) == join(join(root_path, dir), "CMakeLists.txt") \in DOMAIN disk

\* C5: the component list read_files returns holds exactly one component with
\* the empty path.
C5_ExactlyOneRoot ==
    walk_state = "returned" => NumRootComponents = 1

\* C6 as claimed: public iff reachable in one or more steps from a file of
\* another component.
C6_TransitivelyReachable ==
    Built =>
        \A t \in FileRefs :
            file_is_public[t] <=>
                \E s \in FileRefs :
                    file_components[s] # file_components[t] /\ t \in Reachable(s)

\* C6 amended: public iff reachable in exactly one step (a direct outgoing
\* edge) from a file of another component.
C6_DirectlyReachable ==
    Built =>
        \A t \in FileRefs :
            file_is_public[t] <=>
                \E s \in FileRefs :
                    file_components[s] # file_components[t] /\ t \in Succ(s)

\* a file reached from another component in two steps only, and not public
C6_Witness ==
    /\ Built
    /\ \E s, t \in FileRefs :
         /\ file_components[s] # file_components[t]
         /\ t \in Reachable(s)
         /\ \A u \in FileRefs : t \in Succ(u) => file_components[u] = file_components[t]
         /\ ~file_is_public[t]

\* C7 as claimed: public iff some path from f along outgoing edges ends in
\* another component.
C7_PathLeavesComponent ==
    Built =>
        \A f \in FileRefs :
            file_is_public[f] <=>
                \E g \in Reachable(f) : file_components[g] # file_components[f]

\* C7 amended: public iff some one-edge path ends at f and starts at a file of
\* another component (f has an incoming link from another component).
C7_IncomingCrossing ==
    Built =>
        \A f \in FileRefs :
            file_is_public[f] <=>
                \E k \in 1..Len(file_links[f].incoming_links) :
                    file_components[file_links[f].incoming_links[k]] # file_components[f]

\* a public file without any outgoing edge
C7_Witness ==
    /\ Built
    /\ \E f \in FileRefs : file_is_public[f] /\ file_links[f].outgoing_links = <<>>

\* C8: a file whose incoming edges all come from its own component is not
\* public.
C8_IntraComponentNotPublic ==
    Built =>
        \A t \in FileRefs :
            (\A s \in Range(file_links[t].incoming_links) :
                file_components[s] = file_components[t])
            => ~file_is_public[t]

\* a file included by a public file of its own component, and one that
\* includes itself, neither marked public
C8_Witness ==
    /\ Built
    /\ \E t \in FileRefs, s \in FileRefs :
         /\ s \in Range(file_links[t].incoming_links)
         /\ s # t
         /\ file_is_public[s]
         /\ \A u \in Range(file_links[t].incoming_links) :
              file_components[u] = file_components[t]
         /\ ~file_is_public[t]

HeadersPrinted == out.cmd = "headers" /\ out.exit = 0

Listed(k) == {out.sections[k].headers[j][1] : j \in 1..Len(out.sections[k].headers)}

\* a header as the claim words it: the path ends in .h, .hpp or .hxx
EndsInHeaderSuffix(f) ==
    \/ ends_with(files[f].path, ".h")
    \/ ends_with(files[f].path, ".hpp")
    \/ ends_with(files[f].path, ".hxx")

\* C9: print_headers lists no file that is not a header in any section.
C9_OnlyHeadersListed ==
    HeadersPrinted =>
        \A k \in 1..Len(out.sections) : \A f \in Listed(k) : EndsInHeaderSuffix(f)

\* C10: a header of C is listed under Public iff it has an incoming edge from
\* outside C or from a public file of C.
C10_PublicSection ==
    HeadersPrinted =>
        \A h \in Range(component_files[out.c_ref]) :
            is_header(h) =>
                (h \in Listed(1) <=>
                    \E s \in Range(file_links[h].incoming_links) :
                        \/ file_components[s] # out.c_ref
                        \/ file_components[s] = out.c_ref /\ file_is_public[s])

\* a header listed under Public only because a public file of C includes it
C10_Witness ==
    /\ HeadersPrinted
    /\ \E h \in Listed(1) :
         /\ is_header(h)
         /\ \A s \in Range(file_links[h].incoming_links) : file_components[s] = out.c_ref
         /\ ~file_is_public[h]

\* the basename of a path, and the basename up to its last '.'
basename(path) == rsplit_nth(path, "/", 0).val

without_extension(name) ==
    LET idxs == rmatch_indices(name, ".")
    IN  IF idxs = <<>> THEN name ELSE SubSeq(name, 1, idxs[1] - 1)

\* the name test of the claim: the includer's basename without extension is a
\* substring of the header's basename
IncluderNamedInHeader(h, s) ==
    contains(basename(files[h].path), without_extension(basename(files[s].path)))

\* C11: a header of the queried component is listed under Solo iff it is not
\* listed under Public, has exactly one incoming edge, and the basename
\* without extension of its includer is a substring of the header's basename;
\* a header not under Public with one incoming edge that fails the name test
\* is listed under Private.
C11_SoloByIncluderName ==
    HeadersPrinted =>
        \A h \in Range(component_files[out.c_ref]) :
            is_header(h) =>
                LET links == file_links[h].incoming_links
                    test == Len(links) = 1 /\ IncluderNamedInHeader(h, links[1])
                IN  /\ h \in Listed(3) <=> (h \notin Listed(1) /\ test)
                    /\ (h \notin Listed(1) /\ Len(links) = 1 /\ ~test) => h \in Listed(2)

ComponentRefs == 1..Len(components)

\* the number of times the edge from -> to occurs in a list of edges
EdgeCount(edges, from, to) == Count(edges, Edge(from, to))

\* C12: for components A # B and either value of only_public, B is a key of
\* the outgoing map of A exactly when A is a key of the incoming map of B,
\* and then both lists hold the same (from, to) pairs with the same
\* multiplicities.
C12_LinkedComponentsSymmetric ==
    Built =>
        \A A \in ComponentRefs, B \in ComponentRefs, only_public \in BOOLEAN :
            A # B =>
                LET o == linked_components(A, only_public).outgoing
                    i == linked_components(B, only_public).incoming
                IN  /\ B \in DOMAIN o <=> A \in DOMAIN i
                    /\ B \in DOMAIN o =>
                          \A f \in FileRefs, g \in FileRefs :
                              EdgeCount(o[B], f, g) = EdgeCount(i[A], f, g)

\* the listing was printed with only_public set for a component that has an
\* outgoing edge from a public file and one from a file that is not public
C12_Witness ==
    /\ out.cmd = "components"
    /\ out.only_public
    /\ \E k \in 1..Len(out.blocks) : out.blocks[k].outgoing # <<>>
    /\ \E k \in 1..Len(out.blocks) :
         /\ out.blocks[k].outgoing = <<>>
         /\ \E f \in Range(component_files[out.blocks[k].c_ref]), g \in FileRefs :
              /\ ~file_is_public[f]
              /\ g \in Succ(f)
              /\ file_components[f] # file_components[g]

\* the component graph: c -> c2 when a file of c has an outgoing edge to a
\* file of c2
PlainEdges ==
    {e \in ComponentRefs \X ComponentRefs :
        \E f \in Range(component_files[e[1]]) :
            \E g \in Succ(f) : file_components[g] = e[2]}

\* the component graph print_shortest walks from A: with only_public, the
\* edges out of A are those of the public files of A
FilteredEdges(A, only_public) ==
    {e \in ComponentRefs \X ComponentRefs :
        \E f \in Range(component_files[e[1]]) :
            /\ ~(e[1] = A /\ only_public /\ ~file_is_public[f])
            /\ \E g \in Succ(f) : file_components[g] = e[2]}

\* the components reached from A along at most n edges of E
RECURSIVE HopsWithin(_, _, _)
HopsWithin(E, A, n) ==
    IF n = 0 THEN {A}
    ELSE LET S == HopsWithin(E, A, n - 1)
         IN  S \cup {c2 \in ComponentRefs : \E c \in S : <<c, c2>> \in E}

ReachableIn(E, A, B) == B \in HopsWithin(E, A, Len(components))

MinHops(E, A, B) ==
    CHOOSE n \in 0..Len(components) :
        /\ B \in HopsWithin(E, A, n)
        /\ \A m \in 0..(n - 1) : B \notin HopsWithin(E, A, m)

ShortestPrinted == out.cmd = "shortest" /\ out.exit = 0

\* the printed sequence is a path of E from c_from to c_to of minimal length
PrintedShortestPathOf(E) ==
    /\ out.found
    /\ out.result # <<>>
    /\ out.result[1] = out.c_from
    /\ out.result[Len(out.result)] = out.c_to
    /\ \A i \in 1..(Len(out.result) - 1) : <<out.result[i], out.result[i + 1]>> \in E
    /\ Len(out.result) - 1 = MinHops(E, out.c_from, out.c_to)

\* C13 as claimed: whenever B is reachable from A in the component graph,
\* print_shortest prints a path from A to B of that graph with the minimal
\* number of hops.
C13_ShortestInComponentGraph ==
    (ShortestPrinted /\ ReachableIn(PlainEdges, out.c_from, out.c_to))
        => PrintedShortestPathOf(PlainEdges)

\* C13 amended: whenever B is reachable from A in the component graph whose
\* edges out of A are restricted to the public files of A when only_public is
\* set, print_shortest prints a path from A to B of that graph with the
\* minimal number of hops.
C13_ShortestInFilteredGraph ==
    (ShortestPrinted
        /\ ReachableIn(FilteredEdges(out.c_from, out.only_public), out.c_from, out.c_to))
        => PrintedShortestPathOf(FilteredEdges(out.c_from, out.only_public))

\* the two-hop path of a three-cycle, printed with only_public set, and no
\* shorter way
C13_Witness ==
    /\ ShortestPrinted
    /\ out.only_public
    /\ out.found
    /\ Len(out.result) = 3
    /\ <<out.c_to, out.c_from>> \in PlainEdges
    /\ <<out.c_from, out.c_to>> \notin PlainEdges

\* C14: print_shortest prints "No path found." iff B is not reachable from A
\* in the component graph with the only_public filter applied to the files of
\* A; when every link of the files of A leads to a file of A, no other
\* component is found.
C14_NoPathIffUnreachable ==
    ShortestPrinted =>
        /\ out.stdout = "No path found." <=>
              ~ReachableIn(FilteredEdges(out.c_from, out.only_public), out.c_from, out.c_to)
        /\ ((\A f \in Range(component_files[out.c_from]) :
                \A g \in Succ(f) : file_components[g] = out.c_from)
             /\ out.c_to # out.c_from)
            => out.stdout = "No path found."

\* no path is found although a file of A that is not public links into B
C14_Witness ==
    /\ ShortestPrinted
    /\ out.stdout = "No path found."
    /\ out.only_public
    /\ <<out.c_from, out.c_to>> \in PlainEdges

SccsPrinted == out.cmd = "scc"

MutuallyReachable(a, b) ==
    ReachableIn(PlainEdges, a, b) /\ ReachableIn(PlainEdges, b, a)

\* the number of places of the printed groups that component c occupies
Occurrences(c) ==
    Cardinality({pl \in (1..Len(out.groups)) \X ComponentRefs :
                    pl[2] <= Len(out.groups[pl[1]]) /\ out.groups[pl[1]][pl[2]] = c})

\* C15: two distinct components are printed in the same group iff each is
\* reachable from the other in the component graph; no component is printed
\* twice; every group has more than one member, so a component that links
\* only to itself is not printed.
C15_SccsReported ==
    SccsPrinted =>
        /\ \A a \in ComponentRefs, b \in ComponentRefs :
             a # b =>
                ((\E k \in 1..Len(out.groups) : {a, b} \subseteq Range(out.groups[k]))
                    <=> MutuallyReachable(a, b))
        /\ \A c \in ComponentRefs : Occurrences(c) <= 1
        /\ \A k \in 1..Len(out.groups) : Len(out.groups[k]) > 1
        /\ \A c \in ComponentRefs :
             (\A d \in ComponentRefs : <<c, d>> \in PlainEdges => d = c) => Occurrences(c) = 0

\* a cycle through three components, printed as the one group
C15_Witness ==
    /\ SccsPrinted
    /\ Len(out.groups) = 1
    /\ Len(out.groups[1]) = 3
    /\ \E a, b, c \in ComponentRefs :
         /\ {<<a, b>>, <<b, c>>, <<c, a>>} \subseteq PlainEdges
         /\ Cardinality({a, b, c}) = 3
         /\ <<b, a>> \notin PlainEdges

\* the component names and the file names the query was given
SuppliedComponentNames ==
    IF out.cmd = "headers" THEN {out.component_name}
    ELSE IF out.cmd = "shortest" THEN {out.component_from, out.component_to}
    ELSE IF out.cmd = "components"
         THEN {o.val : o \in {x \in {out.component_from, out.component_to} : x.some}}
    ELSE {}

SuppliedFileNames == IF out.cmd = "file" THEN {out.file_name} ELSE {}

MissedComponentNames == {n \in SuppliedComponentNames : component_name_to_ref(n) = 0}

MissedFileNames == {n \in SuppliedFileNames : find_file(n) = 0}

\* C19: a query given a name that matches no component (no file) prints
\* 'component not found: <name>' ('file not found: <name>') for such a name
\* and exits with status 1, the component listing included.
C19_NameMissReported ==
    pc = "done" =>
        /\ MissedComponentNames # {} =>
              /\ out.exit = 1
              /\ \E n \in MissedComponentNames : out.stderr = <<"component not found: ", n>>
        /\ MissedFileNames # {} =>
              /\ out.exit = 1
              /\ \E n \in MissedFileNames : out.stderr = <<"file not found: ", n>>

\* the orders the walker threads can deliver n entries in
Orders(n) == {pi \in [1..n -> 1..n] : \A i, j \in 1..n : i # j => pi[i] # pi[j]}

Reordered(q, pi) == [i \in 1..Len(q) |-> q[pi[i]]]

\* the graph load builds from the file list fs and the component list cs
BuildWith(fs, cs, opts) ==
    LET fc == files_to_components(fs, cs)
        r == resolve_links(fs, fc, opts)
    IN  [panic |-> r.panic,
         file_components |-> fc,
         file_links |-> r.links,
         file_is_public |-> IF r.panic THEN <<>> ELSE generate_is_public(r.links, fc)]

Build(fs, cs) == BuildWith(fs, cs, options)

\* a built graph with files and components identified by path: the component
\* of each file, its publicness, and the edges with their multiplicities
ByPath(fs, cs, g) ==
    LET N == 1..Len(fs)
        paths == {fs[i].path : i \in N}
    IN  [assignment |-> {<<fs[i].path, cs[g.file_components[i]].path>> : i \in N},
         publicness |-> {<<fs[i].path, g.file_is_public[i]>> : i \in N},
         edges |-> [e \in paths \X paths |->
                      Cardinality({o \in N \X (1..(MaxIncludes + 1) * MaxFiles) :
                          /\ fs[o[1]].path = e[1]
                          /\ o[2] <= Len(g.file_links[o[1]].outgoing_links)
                          /\ fs[g.file_links[o[1]].outgoing_links[o[2]]].path = e[2]})]]

\* C16: in heuristic mode and in compile-database mode, the graph built is
\* the same, files and components identified by path, for every order in
\* which the scanner delivers the files and the components of the tree: same
\* component assignment, same publicness, same multiset of edges.
C16_BuildOrderIndependent ==
    pc = "loaded" =>
        \A pi \in Orders(Len(files)), rho \in Orders(Len(components)) :
            LET fs == Reordered(files, pi)
                cs == Reordered(components, rho)
                g == Build(fs, cs)
            IN  /\ ~g.panic
                /\ ByPath(fs, cs, g)
                     = ByPath(files, components,
                              [file_components |-> file_components,
                               file_links |-> file_links,
                               file_is_public |-> file_is_public])

\* C16 restricted to heuristic mode
C16_HeuristicOrderIndependent == ~compile_commands.given => C16_BuildOrderIndependent

\* C20: a compilation database that cannot be opened or parsed does not abort
\* the build, and leaves the files and components of the scanner as they are.
C20_DbFaultTolerated ==
    (compile_commands.given /\ ~compile_commands.ok) => pc # "panic"

\* the entries the walker has handed to a thread
Visited == DOMAIN disk \ pending

Workers == 1..NumWorkers

\* the files and components the visit of the entries handed out so far produces
ProducedFiles(x) == Cardinality({e \in Visited : visit(NewThread, e).files = <<x>>})

ProducedComponents(x) == Cardinality({e \in Visited : visit(NewThread, e).components = <<x>>})

\* the number of times x is held by the collector and by the threads together
HeldFiles(x) ==
    Count(files, x)
    + Cardinality({h \in Workers \X (1..Cardinality(DOMAIN disk)) :
                      h[2] <= Len(threads[h[1]].files) /\ threads[h[1]].files[h[2]] = x})

HeldComponents(x) ==
    Count(components, x)
    + Cardinality({h \in Workers \X (1..Cardinality(DOMAIN disk)) :
                      h[2] <= Len(threads[h[1]].components)
                      /\ threads[h[1]].components[h[2]] = x})

KnownFiles ==
    Range(files) \cup UNION {Range(threads[w].files) : w \in Workers}
        \cup UNION {Range(visit(NewThread, e).files) : e \in Visited}

KnownComponents ==
    Range(components) \cup UNION {Range(threads[w].components) : w \in Workers}
        \cup UNION {Range(visit(NewThread, e).components) : e \in Visited}

\* nothing accumulated is lost or doubled, and the collector is read only
\* after every thread has merged
C17_Inv ==
    /\ \A x \in KnownFiles : HeldFiles(x) = ProducedFiles(x)
    /\ \A x \in KnownComponents :
         HeldComponents(x) =
            IF walk_state = "returned" /\ x.path = "" /\ ProducedComponents(x) = 0
            THEN 1 ELSE ProducedComponents(x)
    /\ walk_state = "returned" =>
         /\ pending = {}
         /\ \A w \in Workers : threads[w] = DeadThread
    /\ pc # "scan" => walk_state = "returned"

IsPrefix(q, r) == Len(q) <= Len(r) /\ SubSeq(r, 1, Len(q)) = q

\* the collector grows by the whole block of one thread at a time, a thread's
\* own lists grow at their end only, and nothing is merged after the return
C17_Step ==
    /\ \/ /\ files' = files
          /\ components' = components \/ walk_state # walk_state'
       \/ \E w \in Workers :
            /\ threads[w].alive /\ ~threads'[w].alive
            /\ files' = files \o threads[w].files
            /\ components' = components \o threads[w].components
            /\ \A v \in Workers \ {w} : threads'[v] = threads[v]
    /\ \A w \in Workers :
         threads'[w].alive =>
            /\ IsPrefix(threads[w].files, threads'[w].files)
            /\ IsPrefix(threads[w].components, threads'[w].components)
    /\ walk_state = "returned" => files' = files /\ components' = components

\* C17: for every interleaving of the walker threads the collector holds,
\* once the walk has returned, every file and component a thread accumulated
\* exactly once; each thread's entries were appended as one block in the
\* thread's own order; and the collector is read only after all have merged.
C17_WorkersMerged == []C17_Inv /\ [][C17_Step]_vars

\* one thread has merged its block while another still holds entries of its own
C17_Witness ==
    /\ walk_state = "walking"
    /\ files # <<>>
    /\ \E w \in Workers, v \in Workers :
         /\ ~threads[w].alive
         /\ threads[v].alive
         /\ threads[v].files # <<>>

\* the suffixes of a source file, as the claim lists them
ClaimedSuffixes ==
    {".c", ".cpp", ".cc", ".cxx", ".h", ".hpp", ".hh", ".hxx", ".H",
     ".inl", ".ipp", ".imp", ".impl"}

\* C18: a readable entry is in the file list iff it is no CMakeLists.txt
\* marker and its name ends with one of the thirteen suffixes.
C18_SourceSuffixes ==
    walk_state = "returned" =>
        \A e \in DOMAIN disk :
            disk[e].ok =>
                ((\E i \in 1..Len(files) : files[i].path = rel_path(replace(e, "\\", "/")))
                    <=> (~is_marker(e) /\ \E suf \in ClaimedSuffixes : ends_with(e, suf)))

(***************************************************************************)
(* The warning flags.                                                      *)
(***************************************************************************)
\* what the visit of entry e adds to a fresh thread built with warn_malformed = wm
Scan(e, wm) ==
    LET th == visit(FileCollectorThread(wm), e)
    IN  [files |-> th.files, components |-> th.components]

\* the graph variables as a record of the shape BuildWith returns
LoadedGraph ==
    [panic |-> FALSE,
     file_components |-> file_components,
     file_links |-> file_links,
     file_is_public |-> file_is_public]

MalformedLines == {l \in printed : l[1] = "malformed include in "}
MissingLines == {l \in printed : l[1] = "include not found in "}

\* C21: warn_missing and warn_malformed only control printing. The visit of
\* every entry stores the same file and component with warn_malformed on and
\* off (an include with "../" is cut the same way), the resolvers build the
\* same graph from the scanned files for every combination of the flags, the
\* loaded graph is that graph, and a warning is printed only with its flag on.
C21_WarningsOnlyPrint ==
    /\ \A e \in DOMAIN disk : Scan(e, TRUE) = Scan(e, FALSE)
    /\ walk_state = "returned" =>
          \A o \in AllOptions :
              BuildWith(files, components, o) = BuildWith(files, components, NoWarn)
    /\ pc = "loaded" => LoadedGraph = BuildWith(files, components, NoWarn)
    /\ ~options.warn_malformed => MalformedLines = {}
    /\ ~options.warn_missing => MissingLines = {}

\* both warnings on, a "../" include was reported and still gave its edge
C21_Witness ==
    /\ pc = "loaded"
    /\ options = [warn_missing |-> TRUE, warn_malformed |-> TRUE]
    /\ MalformedLines # {}
    /\ \E i, j \in FileRefs :
          /\ files[i].include_paths = <<"r/u.h">>
          /\ files[j].path = "r/u.h"
          /\ file_links[i].outgoing_links = <<j>>

(***************************************************************************)
(* The stored include strings.                                             *)
(***************************************************************************)
HasBackslash(s) == \E k \in 1..Len(s) : Char(s, k) = "\\"

HasParentRef(s) == \E k \in 1..(Len(s) - 2) : SubSeq(s, k, k + 2) = "../"

\* s with every backslash turned into a slash
Slashed(s) ==
    LET F[k \in 0..Len(s)] ==
            IF k = 0 THEN ""
            ELSE F[k - 1] \o (IF Char(s, k) = "\\" THEN "/" ELSE Char(s, k))
    IN  F[Len(s)]

\* the part of s after its last "../", s itself when it has none
AfterLastParentRef(s) ==
    IF ~HasParentRef(s) THEN s
    ELSE LET k == CHOOSE i \in 1..(Len(s) - 2) :
                      /\ SubSeq(s, i, i + 2) = "../"
                      /\ ~HasParentRef(SubSeq(s, i + 1, Len(s)))
         IN  SubSeq(s, k + 3, Len(s))

\* the files the collector and the walker threads hold
StoredFiles ==
    Range(files) \cup UNION {Range(threads[w].files) : w \in 1..NumWorkers}

\* C22: every stored include string is its capture with the backslashes
\* replaced by slashes and then cut after the last "../"; no stored include
\* holds a backslash or "../", whether the capture came from the byte
\* pattern or from the UTF-16 pattern.
C22_StoredIncludesNormalized ==
    /\ \A f \in StoredFiles : \A k \in 1..Len(f.include_paths) :
          /\ ~HasBackslash(f.include_paths[k])
          /\ ~HasParentRef(f.include_paths[k])
    /\ \A e \in DOMAIN disk : \A th \in Range(threads) :
          \A f \in Range(visit(th, e).files) \ Range(th.files) :
              /\ disk[e].ok
              /\ Len(f.include_paths) = Len(captures_iter(e))
              /\ \A k \in 1..Len(f.include_paths) :
                    f.include_paths[k] = AfterLastParentRef(Slashed(captures_iter(e)[k]))

\* one file got its include from the byte pattern and one from the UTF-16
\* pattern; the captures held backslashes and "../"
C22_Witness ==
    /\ walk_state = "returned"
    /\ \E i, j \in 1..Len(files) :
          /\ files[i].include_paths = <<"r/u.h">>
          /\ disk[join(root_path, "m.cpp")].captures = <<"..\\r/u.h">>
          /\ files[j].include_paths = <<"m.cpp", "..?h">>
          /\ disk[join(root_path, "r/u.h")].captures = <<>>

(***************************************************************************)
(* Count semantics of the edge lists (heuristic mode).                     *)
(***************************************************************************)
\* the include occurrences of F that resolve: the string is in the suffix index
Resolving(F) ==
    {k \in 1..Len(files[F].include_paths) : Candidates(files[F].include_paths[k]) # {}}

\* the number of candidates the occurrences 1..n of F are linked to
LinkedUpTo(F, n) ==
    LET incs == files[F].include_paths
        S[k \in 0..n] ==
            IF k = 0 THEN 0 ELSE S[k - 1] + Cardinality(Linked(F, incs[k]))
    IN  S[n]

\* C23 as stated: in heuristic mode the number of outgoing edges of a file is
\* the number of its include occurrences that resolve (one edge each).
C23_OneEdgePerOccurrence ==
    Built =>
        \A F \in FileRefs :
            Len(file_links[F].outgoing_links) = Cardinality(Resolving(F))

\* C23 amended: in heuristic mode every include occurrence contributes one
\* edge per candidate it is linked to (the candidates of the includer's
\* component when there is one, every candidate otherwise): the outgoing list
\* is as long as the sum of these numbers, a target occurs in it once per
\* occurrence linked to it, and when no occurrence has more than one linked
\* candidate the list is as long as the number of resolving occurrences.
C23_OneEdgePerLinkedCandidate ==
    Built =>
        \A F \in FileRefs :
            LET incs == files[F].include_paths
                outgoing == file_links[F].outgoing_links
            IN  /\ Len(outgoing) = LinkedUpTo(F, Len(incs))
                /\ \A d \in FileRefs :
                      Count(outgoing, d) =
                          Cardinality({k \in 1..Len(incs) : d \in Linked(F, incs[k])})
                /\ (\A k \in 1..Len(incs) : Cardinality(Linked(F, incs[k])) <= 1)
                      => Len(outgoing) = Cardinality(Resolving(F))

\* a file includes the same string twice and the string has two linked
\* candidates: four edges, each target twice
C23_Witness ==
    /\ Built
    /\ \E F \in FileRefs :
          LET incs == files[F].include_paths
          IN  /\ Len(incs) = 2
              /\ incs[1] = incs[2]
              /\ Cardinality(Linked(F, incs[1])) = 2
              /\ Len(file_links[F].outgoing_links) = 4
              /\ \A d \in Linked(F, incs[1]) : Count(file_links[F].outgoing_links, d) = 2

(***************************************************************************)
(* The public filter of print_shortest.                                    *)
(***************************************************************************)
\* file f passes on its outgoing targets in a search from A
Contributes(f, A, only_public) ==
    ~(file_components[f] = A /\ only_public /\ ~file_is_public[f])

\* the components a search from A gets to in at most n rounds
RECURSIVE SearchedWithin(_, _, _)
SearchedWithin(A, only_public, n) ==
    IF n = 0 THEN {A}
    ELSE LET S == SearchedWithin(A, only_public, n - 1)
         IN  S \cup {file_components[g] :
                        g \in UNION {Succ(f) : f \in {h \in FileRefs :
                                                         /\ file_components[h] \in S
                                                         /\ Contributes(h, A, only_public)}}}

\* the links from the files of c into c2
LinksBetween(c, c2) ==
    {e \in [from : FileRefs, to : FileRefs] :
        /\ file_components[e.from] = c
        /\ file_components[e.to] = c2
        /\ e.to \in Succ(e.from)}

\* C24: with only_public set the filter applies at the origin only. A path is
\* found exactly when the target is among the components got to by following
\* the links of the public files of A and of every file of every other
\* component; under the first component of the printed path only the links of
\* public files are listed, under every later one the links of all its files.
C24_PublicFilterAtOriginOnly ==
    (ShortestPrinted /\ out.only_public) =>
        /\ out.found <=>
              out.c_to \in SearchedWithin(out.c_from, TRUE, Len(components))
        /\ out.found =>
              \A i \in 1..(Len(out.result) - 1) :
                  \A e \in LinksBetween(out.result[i], out.result[i + 1]) :
                      e \in Range(out.hops[i]) <=> (i > 1 \/ file_is_public[e.from])

\* the direct link of a file of A that is not public is passed over, and the
\* path found goes on through a file of the next component that is not public
C24_Witness ==
    /\ ShortestPrinted
    /\ out.only_public
    /\ out.found
    /\ Len(out.result) = 3
    /\ \E e \in LinksBetween(out.c_from, out.c_to) : ~file_is_public[e.from]
    /\ \A e \in Range(out.hops[2]) : ~file_is_public[e.from]

(***************************************************************************)
(* The recursion of the compile-database resolver.                         *)
(***************************************************************************)
DbBuilt == pc = "loaded" /\ compile_commands.given

\* the run of the resolver that built the loaded graph
DbRun == generate_file_links_from_commands(files, compile_commands.map, options)

TotalLinks(links) ==
    LET S[f \in 0..Len(links)] ==
            IF f = 0 THEN 0 ELSE S[f - 1] + Len(links[f].outgoing_links)
    IN  S[Len(links)]

\* C25: the compile-database resolver comes to an end on every file set, with
\* cyclic includes too: no call of fill_file_links begins for a file whose
\* call is still in progress, the call stack is never deeper than the number
\* of files, every call has returned at the end, and there are no more calls
\* than files plus links.
C25_ResolverTerminates ==
    DbBuilt =>
        /\ ~DbRun.reentered
        /\ DbRun.depth <= Len(files)
        /\ DbRun.entered = <<>>
        /\ Len(DbRun.calls) <= Len(files) + TotalLinks(DbRun.links)
        /\ DbRun.links = file_links

\* two files include each other; the resolver went as deep as there are files
C25_Witness ==
    /\ DbBuilt
    /\ Len(files) = 2
    /\ 2 \in Succ(1)
    /\ 1 \in Succ(2)
    /\ DbRun.depth = 2

\* C26: in compile-database mode the include list of every file is resolved
\* at most once during a build, and no include occurrence contributes more
\* than one edge: a file has at most as many outgoing links as includes.
C26_ResolvedAtMostOnce ==
    DbBuilt =>
        \A f \in FileRefs :
            /\ Count(DbRun.calls, f) <= 1
            /\ Len(file_links[f].outgoing_links) <= Len(files[f].include_paths)

(***************************************************************************)
(* The worklist loop of generate_is_public.                                *)
(***************************************************************************)
\* the marks and the worklist after the first loop, on the loaded graph
FirstPass == first_pass(file_links, file_components)

\* the files whose links the worklist loop goes through
Drained == Range(FirstPass.to_visit)

\* C27: the worklist loop of generate_is_public marks no file that the first
\* loop did not mark: the marks after the first loop are the loaded
\* file_is_public, every crossing link of a file taken from the worklist ends
\* at a file that is marked already, and a file is marked iff some file of
\* another component has it in its outgoing list.
C27_WorklistMarksNothing ==
    Built =>
        /\ FirstPass.is_public = file_is_public
        /\ \A f \in Drained : \A fi \in Succ(f) :
              file_components[fi] # file_components[f] => FirstPass.is_public[fi]
        /\ \A t \in FileRefs :
              file_is_public[t] <=>
                  \E s \in FileRefs :
                      /\ file_components[s] # file_components[t]
                      /\ Count(file_links[s].outgoing_links, t) > 0

\* the worklist holds a file with a link to a file of its own component, and
\* that file stays unmarked
C27_Witness ==
    /\ Built
    /\ \E f \in Drained : \E fi \in Succ(f) :
          /\ fi # f
          /\ file_components[fi] = file_components[f]
          /\ ~file_is_public[fi]

(***************************************************************************)
(* The four lists of print_headers.                                        *)
(***************************************************************************)
\* the number of entries of the printed lists that are for file h
TimesListed(h) ==
    Cardinality({pl \in (1..4) \X (1..Len(files)) :
                    /\ pl[2] <= Len(out.sections[pl[1]].headers)
                    /\ out.sections[pl[1]].headers[pl[2]][1] = h})

HeadersOfQueried == {h \in Range(component_files[out.c_ref]) : is_header(h)}

\* C28: print_headers partitions the headers of C: every header of C has
\* exactly one entry in the four lists together, and it is in the Dead list
\* exactly when it has no incoming link.
C28_HeadersPartitioned ==
    HeadersPrinted =>
        \A h \in HeadersOfQueried :
            /\ TimesListed(h) = 1
            /\ h \in Listed(4) <=> file_links[h].incoming_links = <<>>

\* a header without includer is listed as dead next to a header of the same
\* component in another list
C28_Witness ==
    /\ HeadersPrinted
    /\ \E h \in HeadersOfQueried :
          /\ file_links[h].incoming_links = <<>>
          /\ h \in Listed(4)
    /\ \E h \in HeadersOfQueried : h \in Listed(1) \cup Listed(2) \cup Listed(3)

\* C29: the publicness flag and the lists agree: a header of C whose flag is
\* set is in the Public list, and every incoming link of a header in the
\* Private, Solo or Dead list comes from a file of C whose flag is not set.
C29_FlagAgreesWithLists ==
    HeadersPrinted =>
        \A h \in HeadersOfQueried :
            /\ file_is_public[h] => h \in Listed(1)
            /\ h \in Listed(2) \cup Listed(3) \cup Listed(4) =>
                  \A k \in 1..Len(file_links[h].incoming_links) :
                      LET s == file_links[h].incoming_links[k]
                      IN  file_components[s] = out.c_ref /\ ~file_is_public[s]

\* a flagged header in the Public list, and a header in another list that a
\* file of C without the flag includes
C29_Witness ==
    /\ HeadersPrinted
    /\ \E h \in HeadersOfQueried : file_is_public[h] /\ h \in Listed(1)
    /\ \E h \in HeadersOfQueried :
          /\ h \in Listed(2) \cup Listed(3)
          /\ \E s \in Range(file_links[h].incoming_links) : ~file_is_public[s]

(***************************************************************************)
(* The selections of the terminal UI.                                      *)
(***************************************************************************)
UiShown == pc = "ui"

\* C30: in the terminal UI, after any sequence of keys, the selected column
\* is 0, 1 or 2 and in every column whose list is not empty the selected
\* index is smaller than the number of items.
C30_SelectionInRange ==
    UiShown =>
        /\ gui.sel_column \in 0..2
        /\ \A c \in 1..3 :
              gui.items[c] # <<>> => gui.selected[c] < Len(gui.items[c])

====
